---- MODULE Spec2Model ----
(***************************************************************************)
(* Vybin event feed: the interest matcher (normalize, stripHTML,           *)
(* matchesByInterests), the relevance score and the feed assembly of the   *)
(* feed component, in its word-membership revision and its ranking         *)
(* revision.                                                               *)
(*                                                                         *)
(* Strings are sequences of one-character strings, so that the regular     *)
(* expression replacements, split and includes are computed character by   *)
(* character as the JavaScript does.  null is the distinguished value      *)
(* below; it is no string of characters.                                   *)
(***************************************************************************)
EXTENDS Integers, Sequences, FiniteSets, TLC

VARIABLES
  ev,            \* matcher run: the event handed to matchesByInterests
  interests,     \* matcher run: the interest labels handed to it
  matchDone,     \* matcher run: matchesByInterests has returned
  matched,       \* matcher run: the value it returned
  threw,         \* matcher run: it ended with a TypeError, returning nothing
  revision,      \* feed: the revision of the feed component that is mounted
  user,          \* feed: the signed-in user, or null
  dbPrefs,       \* backend: interest_name of the user's user_preferences rows
  dbEvents,      \* backend: the events rows, by date ascending
  pc,            \* feed: where loadEventsWithPreferences stands
  loadInterests, \* feed: the loader's local interests
  allEvents,     \* feed: the loader's local allEvents, [] for no data
  now,           \* feed: the loader's local now
  scored,        \* feed: the loader's list of {e, score}, ranking revision
  events,        \* feed: the events state of the component
  loading,       \* feed: the loading state of the component
  currentPage,   \* feed: the currentPage state of the component
  normIn,        \* normalizer run: the string handed over, or null
  normOut,       \* normalizer run: normalize(normIn)
  normAgain,     \* normalizer run: normalize(normalize(normIn))
  stripOut,      \* normalizer run: stripHTML(normIn)
  stripNormOut,  \* normalizer run: normalize(stripHTML(normIn))
  normOutR6,     \* normalizer run: normalize(normIn), ranking revision
  matchLog,      \* invocations: what each call of matchesByInterests gave
  scoreLog,      \* invocations: the clock and the result of each relevanceScore
  savedEvents,   \* user data: the savedEvents state of the component
  appliedEvents, \* user data: the appliedEvents state of the component
  dbSaved,       \* backend: event_id of the user's saved_events rows
  dbApplications,\* backend: per event, the number of the user's applications rows
  calendarOpens, \* user data: per event, how often window.open showed the calendar
  calls,         \* user data: the calls of loadUserData/handleSave/handleApply under way
  savedOk,       \* user data: events saved by a successful handleSave, not un-saved since
  appliedOk,     \* user data: events applied to by a successful handleApply
  selectedEvent, \* modal: the selectedEvent state of the component, or null
  isModalOpen,   \* modal: the isModalOpen state of the component
  closeTimers,   \* modal: the timers set by closeModal that have not fired
  loads,         \* reloads: the calls of loadEventsWithPreferences under way
  errorLogged,   \* reloads: a load has ended in its catch block
  savedRows,     \* saved tab, backend: the user's saved_events rows
  dbEventIds,    \* saved tab, backend: the ids of the events rows
  fetchPc,       \* saved tab: where fetchSavedEvents stands
  eventIds,      \* saved tab: the local eventIds of fetchSavedEvents
  eventsData,    \* saved tab: the rows the select on events answered with
  savedTabEvents,\* saved tab: the savedEvents state of SavedTab
  savedTabLoading, \* saved tab: the loading state of SavedTab
  profileRow,    \* onboarding check, backend: the user's profiles row, if any
  retryPc,       \* onboarding check: where checkOnboardingStatus stands
  attempt,       \* onboarding check: the i of checkProfileWithRetry
  outcomes,      \* onboarding check: what each profile query gave
  returned,      \* onboarding check: what checkProfileWithRetry returned
  checkingOnboarding, \* onboarding check: the state of that name
  isOnboarded,   \* onboarding check: the state of that name
  prefRows,      \* preferences, backend: per interest, the user's user_preferences rows
  prefsUnique,   \* preferences, backend: user_preferences allows one row per interest
  selectedInterests, \* preferences: the state of that name of OnboardingScreen
  lastSelected,  \* preferences: the interests of the last successful handleComplete
  passes         \* preferences: the number of successful handleComplete calls

matchVars == <<ev, interests, matchDone, matched, threw>>
feedVars ==
  <<revision, user, dbPrefs, dbEvents, pc, loadInterests, allEvents, now,
    scored, events, loading>>
pageVars == <<currentPage>>
normVars == <<normIn, normOut, normAgain, stripOut, stripNormOut, normOutR6>>
pureVars == <<matchLog, scoreLog>>
userVars ==
  <<savedEvents, appliedEvents, dbSaved, dbApplications, calendarOpens, calls,
    savedOk, appliedOk>>
modalVars == <<selectedEvent, isModalOpen, closeTimers>>
reloadVars == <<loads, errorLogged>>
savedTabVars ==
  <<savedRows, dbEventIds, fetchPc, eventIds, eventsData, savedTabEvents,
    savedTabLoading>>
retryVars ==
  <<profileRow, retryPc, attempt, outcomes, returned, checkingOnboarding,
    isOnboarded>>
prefsVars ==
  <<prefRows, prefsUnique, selectedInterests, lastSelected, passes>>
sideVars ==
  <<userVars, modalVars, reloadVars, savedTabVars, retryVars, prefsVars>>
vars == <<matchVars, feedVars, pageVars, normVars, pureVars, sideVars>>

----------------------------------------------------------------------------
(* JavaScript strings *)

null == <<"null">>

UpperLetters ==
  <<"A","B","C","D","E","F","G","H","I","J","K","L","M",
    "N","O","P","Q","R","S","T","U","V","W","X","Y","Z">>
LowerLetters ==
  <<"a","b","c","d","e","f","g","h","i","j","k","l","m",
    "n","o","p","q","r","s","t","u","v","w","x","y","z">>
Digits ==
  {"0","1","2","3","4","5","6","7","8","9"}

\* \s of the regular expressions: space, tab, newline.
IsSpace(c) == c \in {" ", "\t", "\n"}

\* [a-z0-9\s]
AlnumOrSpace ==
  {LowerLetters[i] : i \in 1..26} \cup Digits \cup {" ", "\t", "\n"}
IsAlnumOrSpace(c) == c \in AlnumOrSpace

\* The lower-case letter of each upper-case letter.
LowerOf ==
  [c \in {UpperLetters[i] : i \in 1..26} |->
     LowerLetters[CHOOSE k \in 1..26 : UpperLetters[k] = c]]

\* String.prototype.toLowerCase, on the ASCII letters.
toLowerCase(s) ==
  [i \in 1..Len(s) |-> IF s[i] \in DOMAIN LowerOf THEN LowerOf[s[i]] ELSE s[i]]

\* s ?? ''
orEmpty(s) == IF s = null THEN <<>> ELSE s

\* Variant of replaceAmp: "and" without the spaces around it.
RECURSIVE replaceAmpJoined(_)
replaceAmpJoined(s) ==
  IF s = <<>> THEN <<>>
  ELSE IF Head(s) = "&" THEN <<"a","n","d">> \o replaceAmpJoined(Tail(s))
  ELSE <<Head(s)>> \o replaceAmpJoined(Tail(s))

\* .replace(/&/g, ' and ')
RECURSIVE replaceAmp(_)
replaceAmp(s) ==
  IF s = <<>> THEN <<>>
  ELSE IF Head(s) = "&" THEN <<" ","a","n","d"," ">> \o replaceAmp(Tail(s))
  ELSE <<Head(s)>> \o replaceAmp(Tail(s))

\* Variant of replaceNonAlnum: the characters are deleted.
deleteNonAlnum(s) ==
  SelectSeq(s, IsAlnumOrSpace)

\* .replace(/[^a-z0-9\s]/g, ' ')
replaceNonAlnum(s) ==
  [i \in 1..Len(s) |-> IF IsAlnumOrSpace(s[i]) THEN s[i] ELSE " "]

\* .replace(/\s+/g, ' '): every maximal run of white space becomes one space.
RECURSIVE collapseSpaces(_)
collapseSpaces(s) ==
  IF s = <<>> THEN <<>>
  ELSE IF IsSpace(Head(s))
    THEN IF Len(s) > 1 /\ IsSpace(s[2])
           THEN collapseSpaces(Tail(s))
           ELSE <<" ">> \o collapseSpaces(Tail(s))
  ELSE <<Head(s)>> \o collapseSpaces(Tail(s))

\* String.prototype.trim
RECURSIVE trimStart(_)
trimStart(s) ==
  IF s # <<>> /\ IsSpace(Head(s)) THEN trimStart(Tail(s)) ELSE s
RECURSIVE trimEnd(_)
trimEnd(s) ==
  IF s # <<>> /\ IsSpace(s[Len(s)]) THEN trimEnd(SubSeq(s, 1, Len(s) - 1)) ELSE s
trim(s) == trimEnd(trimStart(s))

\* String.prototype.includes
includes(hay, needle) ==
  \E i \in 0..(Len(hay) - Len(needle)) : SubSeq(hay, i + 1, i + Len(needle)) = needle

\* .split(/\s+/): the pieces between the runs of white space; a string that
\* starts or ends with white space gets an empty first or last piece, and the
\* empty string splits into one empty piece.
RECURSIVE splitFrom(_, _)
splitFrom(s, piece) ==
  IF s = <<>> THEN <<piece>>
  ELSE IF IsSpace(Head(s))
    THEN <<piece>> \o splitFrom(trimStart(s), <<>>)
  ELSE splitFrom(Tail(s), Append(piece, Head(s)))
split(s) == splitFrom(s, <<>>)

\* Array.prototype.includes
arrayIncludes(arr, x) == \E i \in 1..Len(arr) : arr[i] = x

\* Variant of replaceTags: a tag goes up to the last ">" of the string.
RECURSIVE replaceTagsGreedy(_)
replaceTagsGreedy(s) ==
  IF s = <<>> THEN <<>>
  ELSE IF Head(s) = "<" /\ \E j \in 2..Len(s) : s[j] = ">"
    THEN LET j == CHOOSE k \in 2..Len(s) :
                    s[k] = ">" /\ \A m \in (k + 1)..Len(s) : s[m] # ">"
         IN  <<" ">> \o SubSeq(s, j + 1, Len(s))
  ELSE <<Head(s)>> \o replaceTagsGreedy(Tail(s))

\* .replace(/<[^>]*>/g, ' '): a "<" with a ">" after it is replaced, up to the
\* first such ">", by one space; a "<" with no ">" after it stays.
RECURSIVE replaceTags(_)
replaceTags(s) ==
  IF s = <<>> THEN <<>>
  ELSE IF Head(s) = "<" /\ \E j \in 2..Len(s) : s[j] = ">"
    THEN LET j == CHOOSE k \in 2..Len(s) :
                    s[k] = ">" /\ \A m \in 2..(k - 1) : s[m] # ">"
         IN  <<" ">> \o replaceTags(SubSeq(s, j + 1, Len(s)))
  ELSE <<Head(s)>> \o replaceTags(Tail(s))

----------------------------------------------------------------------------
(* The matcher *)

\* The interest labels of the taxonomy, as sequences of characters.
\* "Wellness & Mental Health"
WellnessLabel ==
  <<"W","e","l","l","n","e","s","s"," ","&"," ","M","e","n","t","a","l"," ","H","e","a","l","t","h">>
\* "Career & Professional Development"
CareerLabel ==
  <<"C","a","r","e","e","r"," ","&"," ","P","r","o","f","e","s","s","i","o","n","a","l"," ","D","e","v","e","l","o","p","m","e","n","t">>
\* "Workshops & Skill Building"
WorkshopsLabel ==
  <<"W","o","r","k","s","h","o","p","s"," ","&"," ","S","k","i","l","l"," ","B","u","i","l","d","i","n","g">>
\* "Social & Community Events"
SocialLabel ==
  <<"S","o","c","i","a","l"," ","&"," ","C","o","m","m","u","n","i","t","y"," ","E","v","e","n","t","s">>
\* "Arts & Creative Activities"
ArtsLabel ==
  <<"A","r","t","s"," ","&"," ","C","r","e","a","t","i","v","e"," ","A","c","t","i","v","i","t","i","e","s">>
\* "Academic Support & Research"
AcademicLabel ==
  <<"A","c","a","d","e","m","i","c"," ","S","u","p","p","o","r","t"," ","&"," ","R","e","s","e","a","r","c","h">>
\* "International Student Services"
InternationalLabel ==
  <<"I","n","t","e","r","n","a","t","i","o","n","a","l"," ","S","t","u","d","e","n","t"," ","S","e","r","v","i","c","e","s">>
\* "Leadership & Personal Growth"
LeadershipLabel ==
  <<"L","e","a","d","e","r","s","h","i","p"," ","&"," ","P","e","r","s","o","n","a","l"," ","G","r","o","w","t","h">>

\* CATEGORY_KEYWORDS of the word-membership revision of the feed.
CATEGORY_KEYWORDS ==
     WellnessLabel :> <<
        <<"w","e","l","l","n","e","s","s">>,   \* wellness
        <<"m","e","n","t","a","l"," ","h","e","a","l","t","h">>,   \* mental health
        <<"t","h","e","r","a","p","y">>,   \* therapy
        <<"y","o","g","a">>,   \* yoga
        <<"s","t","r","e","s","s">>,   \* stress
        <<"a","n","x","i","e","t","y">>,   \* anxiety
        <<"m","i","n","d","f","u","l","n","e","s","s">>,   \* mindfulness
        <<"s","t","u","d","e","n","t"," ","w","e","l","l","n","e","s","s"," ","h","u","b">>,   \* student wellness hub
        <<"h","e","a","l","t","h"," ","s","u","p","p","o","r","t">>,   \* health support
        <<"m","e","d","i","t","a","t","i","o","n">>,   \* meditation
        <<"r","e","l","a","x","a","t","i","o","n">>,   \* relaxation
        <<"s","e","l","f","-","c","a","r","e">>,   \* self-care
        <<"c","o","u","n","s","e","l","i","n","g">>,   \* counseling
        <<"m","e","n","t","a","l">>,   \* mental
        <<"s","u","p","p","o","r","t"," ","g","r","o","u","p">>,   \* support group
        <<"m","e","n","t","a","l"," ","w","e","l","l","b","e","i","n","g">>    \* mental wellbeing
     >>
  @@ CareerLabel :> <<
        <<"c","a","r","e","e","r">>,   \* career
        <<"i","n","t","e","r","n","s","h","i","p">>,   \* internship
        <<"j","o","b">>,   \* job
        <<"r","e","s","u","m","e">>,   \* resume
        <<"c","v">>,   \* cv
        <<"n","e","t","w","o","r","k","i","n","g">>,   \* networking
        <<"l","i","n","k","e","d","i","n">>,   \* linkedin
        <<"c","a","r","e","e","r"," ","p","l","a","n","n","i","n","g"," ","s","e","r","v","i","c","e">>,   \* career planning service
        <<"c","a","r","e","e","r"," ","a","d","v","i","s","i","n","g">>,   \* career advising
        <<"c","a","r","e","e","r"," ","f","a","i","r">>,   \* career fair
        <<"e","m","p","l","o","y","a","b","i","l","i","t","y">>,   \* employability
        <<"i","n","d","u","s","t","r","y">>,   \* industry
        <<"p","r","o","f","e","s","s","i","o","n","a","l"," ","d","e","v","e","l","o","p","m","e","n","t">>,   \* professional development
        <<"i","n","t","e","r","v","i","e","w"," ","s","k","i","l","l","s">>,   \* interview skills
        <<"g","r","a","d","u","a","t","e"," ","o","p","p","o","r","t","u","n","i","t","i","e","s">>,   \* graduate opportunities
        <<"s","k","i","l","l","s","e","t","s">>,   \* skillsets
        <<"g","r","a","d","u","a","t","e"," ","w","o","r","k","s","h","o","p","s">>,   \* graduate workshops
        <<"a","p","a"," ","c","i","t","a","t","i","o","n">>,   \* apa citation
        <<"a","p","a">>,   \* apa
        <<"p","r","o","d","u","c","t","i","v","i","t","y">>,   \* productivity
        <<"t","i","m","e"," ","m","a","n","a","g","e","m","e","n","t">>,   \* time management
        <<"a","c","a","d","e","m","i","c"," ","w","r","i","t","i","n","g">>,   \* academic writing
        <<"s","t","u","d","y"," ","s","k","i","l","l","s">>,   \* study skills
        <<"c","o","m","m","u","n","i","c","a","t","i","o","n"," ","s","k","i","l","l","s">>,   \* communication skills
        <<"n","e","g","o","t","i","a","t","i","o","n">>,   \* negotiation
        <<"g","r","a","d","u","a","t","e"," ","l","i","f","e">>,   \* graduate life
        <<"p","r","o","f","e","s","s","i","o","n","a","l"," ","s","k","i","l","l","s">>,   \* professional skills
        <<"w","r","i","t","i","n","g"," ","w","o","r","k","s","h","o","p">>,   \* writing workshop
        <<"c","a","r","e","e","r"," ","s","e","r","v","i","c","e","s">>,   \* career services
        <<"c","a","r","e","e","r"," ","p","r","e","p">>,   \* career prep
        <<"c","a","r","e","e","r"," ","r","e","a","d","i","n","e","s","s">>,   \* career readiness
        <<"g","r","a","d","u","a","t","e"," ","s","t","u","d","e","n","t">>,   \* graduate student
        <<"s","u","c","c","e","s","s"," ","s","t","r","a","t","e","g","i","e","s">>    \* success strategies
     >>
  @@ WorkshopsLabel :> <<
        <<"w","o","r","k","s","h","o","p">>,   \* workshop
        <<"t","r","a","i","n","i","n","g">>,   \* training
        <<"s","k","i","l","l"," ","b","u","i","l","d","i","n","g">>,   \* skill building
        <<"t","u","t","o","r","i","a","l">>,   \* tutorial
        <<"l","e","a","r","n","i","n","g">>,   \* learning
        <<"s","k","i","l","l","s","e","t","s">>,   \* skillsets
        <<"g","r","a","d","u","a","t","e"," ","w","o","r","k","s","h","o","p","s">>,   \* graduate workshops
        <<"a","c","a","d","e","m","i","c"," ","s","k","i","l","l","s">>,   \* academic skills
        <<"s","t","u","d","y"," ","s","k","i","l","l","s">>,   \* study skills
        <<"s","e","m","i","n","a","r">>,   \* seminar
        <<"h","a","n","d","s","-","o","n">>    \* hands-on
     >>
  @@ SocialLabel :> <<
        <<"s","o","c","i","a","l">>,   \* social
        <<"c","o","m","m","u","n","i","t","y">>,   \* community
        <<"m","e","e","t","u","p">>,   \* meetup
        <<"e","v","e","n","t">>,   \* event
        <<"g","a","t","h","e","r","i","n","g">>,   \* gathering
        <<"p","a","r","t","y">>,   \* party
        <<"c","o","n","n","e","c","t">>,   \* connect
        <<"s","t","u","d","e","n","t"," ","l","i","f","e">>,   \* student life
        <<"c","a","m","p","u","s"," ","l","i","f","e">>,   \* campus life
        <<"c","o","m","m","u","n","i","t","y"," ","e","v","e","n","t">>,   \* community event
        <<"p","e","e","r"," ","n","e","t","w","o","r","k">>,   \* peer network
        <<"h","a","n","g","o","u","t">>,   \* hangout
        <<"m","i","x"," ","a","n","d"," ","m","i","n","g","l","e">>    \* mix and mingle
     >>
  @@ ArtsLabel :> <<
        <<"a","r","t">>,   \* art
        <<"c","r","e","a","t","i","v","e">>,   \* creative
        <<"c","r","a","f","t">>,   \* craft
        <<"d","r","a","w","i","n","g">>,   \* drawing
        <<"p","a","i","n","t","i","n","g">>,   \* painting
        <<"f","i","l","m">>,   \* film
        <<"m","u","s","i","c">>,   \* music
        <<"p","h","o","t","o","g","r","a","p","h","y">>,   \* photography
        <<"s","t","u","d","i","o">>,   \* studio
        <<"g","a","l","l","e","r","y">>,   \* gallery
        <<"d","e","s","i","g","n">>,   \* design
        <<"w","r","i","t","i","n","g">>,   \* writing
        <<"a","r","t","i","s","t","i","c">>,   \* artistic
        <<"p","e","r","f","o","r","m","a","n","c","e">>    \* performance
     >>
  @@ AcademicLabel :> <<
        <<"a","c","a","d","e","m","i","c">>,   \* academic
        <<"r","e","s","e","a","r","c","h">>,   \* research
        <<"s","t","u","d","y">>,   \* study
        <<"w","r","i","t","i","n","g">>,   \* writing
        <<"l","i","b","r","a","r","y">>,   \* library
        <<"t","h","e","s","i","s">>,   \* thesis
        <<"c","i","t","a","t","i","o","n">>,   \* citation
        <<"a","p","a">>,   \* apa
        <<"s","t","u","d","y"," ","g","r","o","u","p">>,   \* study group
        <<"l","e","a","r","n","i","n","g"," ","s","e","r","v","i","c","e","s">>,   \* learning services
        <<"g","r","a","d"," ","r","e","s","e","a","r","c","h">>,   \* grad research
        <<"s","t","u","d","y"," ","t","i","p","s">>,   \* study tips
        <<"e","x","a","m"," ","p","r","e","p">>    \* exam prep
     >>
  @@ InternationalLabel :> <<
        <<"i","n","t","e","r","n","a","t","i","o","n","a","l">>,   \* international
        <<"s","t","u","d","y"," ","p","e","r","m","i","t">>,   \* study permit
        <<"v","i","s","a">>,   \* visa
        <<"i","s","s">>,   \* iss
        <<"i","m","m","i","g","r","a","t","i","o","n">>,   \* immigration
        <<"c","a","q">>,   \* caq
        <<"g","l","o","b","a","l"," ","l","e","a","r","n","i","n","g">>,   \* global learning
        <<"i","n","t","e","r","n","a","t","i","o","n","a","l"," ","s","t","u","d","e","n","t","s">>,   \* international students
        <<"s","t","u","d","y"," ","a","b","r","o","a","d">>,   \* study abroad
        <<"i","n","t","e","r","c","u","l","t","u","r","a","l">>,   \* intercultural
        <<"t","r","a","v","e","l">>,   \* travel
        <<"e","x","c","h","a","n","g","e">>    \* exchange
     >>
  @@ LeadershipLabel :> <<
        <<"l","e","a","d","e","r","s","h","i","p">>,   \* leadership
        <<"l","e","a","d","e","r">>,   \* leader
        <<"d","e","v","e","l","o","p","m","e","n","t">>,   \* development
        <<"g","r","o","w","t","h">>,   \* growth
        <<"m","i","n","d","s","e","t">>,   \* mindset
        <<"e","m","e","r","g","i","n","g"," ","l","e","a","d","e","r","s">>,   \* emerging leaders
        <<"m","o","t","i","v","a","t","i","o","n">>,   \* motivation
        <<"c","o","n","f","i","d","e","n","c","e">>,   \* confidence
        <<"p","u","b","l","i","c"," ","s","p","e","a","k","i","n","g">>,   \* public speaking
        <<"p","e","r","s","o","n","a","l"," ","g","r","o","w","t","h">>,   \* personal growth
        <<"i","m","p","o","s","t","e","r"," ","s","y","n","d","r","o","m","e">>,   \* imposter syndrome
        <<"s","e","l","f"," ","i","m","p","r","o","v","e","m","e","n","t">>    \* self improvement
     >>

\* CATEGORY_KEYWORDS of the ranking revision of the feed.
CATEGORY_KEYWORDS_R6 ==
     CareerLabel :> <<
        <<"c","a","r","e","e","r">>,   \* career
        <<"j","o","b">>,   \* job
        <<"i","n","t","e","r","n","s","h","i","p">>,   \* internship
        <<"r","e","s","u","m","e">>,   \* resume
        <<"l","i","n","k","e","d","i","n">>,   \* linkedin
        <<"n","e","t","w","o","r","k">>,   \* network
        <<"e","m","p","l","o","y","e","r">>,   \* employer
        <<"c","a","r","e","e","r"," ","p","l","a","n","n","i","n","g">>    \* career planning
     >>
  @@ WellnessLabel :> <<
        <<"w","e","l","l","n","e","s","s">>,   \* wellness
        <<"m","e","n","t","a","l">>,   \* mental
        <<"t","h","e","r","a","p","y">>,   \* therapy
        <<"s","t","r","e","s","s">>,   \* stress
        <<"h","e","a","l","t","h">>,   \* health
        <<"m","i","n","d","f","u","l","n","e","s","s">>,   \* mindfulness
        <<"s","u","p","p","o","r","t">>,   \* support
        <<"c","a","r","e">>    \* care
     >>
  @@ WorkshopsLabel :> <<
        <<"w","o","r","k","s","h","o","p">>,   \* workshop
        <<"t","r","a","i","n","i","n","g">>,   \* training
        <<"l","e","a","r","n">>,   \* learn
        <<"s","k","i","l","l","s","e","t","s">>,   \* skillsets
        <<"t","u","t","o","r","i","a","l">>,   \* tutorial
        <<"s","e","m","i","n","a","r">>,   \* seminar
        <<"s","e","s","s","i","o","n">>    \* session
     >>
  @@ SocialLabel :> <<
        <<"s","o","c","i","a","l">>,   \* social
        <<"c","o","m","m","u","n","i","t","y">>,   \* community
        <<"m","i","x","e","r">>,   \* mixer
        <<"c","o","n","n","e","c","t">>,   \* connect
        <<"m","e","e","t","u","p">>,   \* meetup
        <<"h","a","n","g","o","u","t">>    \* hangout
     >>
  @@ InternationalLabel :> <<
        <<"i","n","t","e","r","n","a","t","i","o","n","a","l">>,   \* international
        <<"i","m","m","i","g","r","a","t","i","o","n">>,   \* immigration
        <<"i","s","s">>,   \* iss
        <<"v","i","s","a">>,   \* visa
        <<"g","l","o","b","a","l">>,   \* global
        <<"o","r","i","e","n","t","a","t","i","o","n">>    \* orientation
     >>
  @@ LeadershipLabel :> <<
        <<"l","e","a","d","e","r","s","h","i","p">>,   \* leadership
        <<"m","i","n","d","s","e","t">>,   \* mindset
        <<"g","r","o","w","t","h">>,   \* growth
        <<"d","e","v","e","l","o","p","m","e","n","t">>,   \* development
        <<"i","m","p","o","s","t","e","r">>    \* imposter
     >>

stripHTML(html) == trim(collapseSpaces(replaceTags(orEmpty(html))))

\* Variant of normalize: trimmed before the replacements, not after them.
normalizeTrimFirst(s) ==
  collapseSpaces(replaceNonAlnum(replaceAmp(trim(toLowerCase(orEmpty(s))))))

normalize(s) ==
  trim(collapseSpaces(replaceNonAlnum(replaceAmp(toLowerCase(orEmpty(s))))))

\* Variant of keywordsOf: the keywords of every label, whatever the interest.
keywordsOfAnyLabel(interest) ==
  CATEGORY_KEYWORDS[WellnessLabel] \o CATEGORY_KEYWORDS[ArtsLabel]
    \o CATEGORY_KEYWORDS[AcademicLabel]

\* Variant of keywordsOf: a label without an entry is its own keyword.
keywordsOfOrLabel(interest) ==
  IF interest \in DOMAIN CATEGORY_KEYWORDS THEN CATEGORY_KEYWORDS[interest]
  ELSE <<interest>>

\* Names that every object literal inherits from Object.prototype:
\* "constructor", "toString", "valueOf", "hasOwnProperty", "__proto__".
ConstructorLabel ==
  <<"c","o","n","s","t","r","u","c","t","o","r">>
ObjectPrototypeKeys ==
  {ConstructorLabel,
   <<"t","o","S","t","r","i","n","g">>,
   <<"v","a","l","u","e","O","f">>,
   <<"h","a","s","O","w","n","P","r","o","p","e","r","t","y">>,
   <<"_","_","p","r","o","t","o","_","_">>}

\* CATEGORY_KEYWORDS[interest] is a member inherited from Object.prototype, a
\* function or an object: ?? [] keeps it, and for...of over it is a TypeError.
notIterable(interest) ==
  interest \notin DOMAIN CATEGORY_KEYWORDS /\ interest \in ObjectPrototypeKeys

\* CATEGORY_KEYWORDS[interest] ?? [], as the keywords a loop over it finds
keywordsOf(interest) ==
  IF interest \in DOMAIN CATEGORY_KEYWORDS THEN CATEGORY_KEYWORDS[interest] ELSE <<>>

\* Variant of searchSource: the type field is left out of the text.
searchSourceNoType(e) ==
  e.title \o <<" ">> \o stripHTML(e.description) \o <<" ">>
    \o <<" ">> \o orEmpty(e.organization)

\* `${ev.title} ${stripHTML(ev.description)} ${ev.event_type ?? ''} ${ev.organization ?? ''}`
searchSource(e) ==
  e.title \o <<" ">> \o stripHTML(e.description) \o <<" ">>
    \o orEmpty(e.event_type) \o <<" ">> \o orEmpty(e.organization)

\* typeNorm && typeNorm.includes(normalize(interest))
typeHit(typeNorm, interest) ==
  typeNorm # <<>> /\ includes(typeNorm, normalize(interest))

\* Variant of keywordHit: a keyword word counts when it occurs inside a word.
keywordHitSubstring(words, kw) ==
  LET kwWords == split(normalize(kw))
  IN  \A i \in 1..Len(kwWords) :
        \E j \in 1..Len(words) : includes(words[j], kwWords[i])

\* kwWords.every((w) => words.includes(w))
keywordHit(words, kw) ==
  LET kwWords == split(normalize(kw))
  IN  \A i \in 1..Len(kwWords) : arrayIncludes(words, kwWords[i])

\* The for loop over the interests, from position i on: the first label whose
\* type test or keyword test succeeds returns true.
RECURSIVE matchFrom(_, _, _, _)
matchFrom(text, typeNorm, labels, i) ==
  IF i > Len(labels) THEN FALSE
  ELSE
    LET interest == labels[i]
        kwList == keywordsOf(interest)
        words == split(text)
    IN  IF typeHit(typeNorm, interest) THEN TRUE
        ELSE IF notIterable(interest) THEN FALSE
        ELSE IF \E k \in 1..Len(kwList) : keywordHit(words, kwList[k]) THEN TRUE
        ELSE matchFrom(text, typeNorm, labels, i + 1)

\* The value matchesByInterests returns, when it returns.
matchesByInterests(e, labels) ==
  matchFrom(normalize(searchSource(e)), normalize(e.event_type), labels, 1)

\* The for loop over the interests, from position i on, ends with a
\* TypeError: it comes to a label whose type test fails and whose kwList is
\* not iterable before a label returns true.
RECURSIVE matchThrowsFrom(_, _, _, _)
matchThrowsFrom(text, typeNorm, labels, i) ==
  IF i > Len(labels) THEN FALSE
  ELSE
    LET interest == labels[i]
        kwList == keywordsOf(interest)
        words == split(text)
    IN  IF typeHit(typeNorm, interest) THEN FALSE
        ELSE IF notIterable(interest) THEN TRUE
        ELSE IF \E k \in 1..Len(kwList) : keywordHit(words, kwList[k]) THEN FALSE
        ELSE matchThrowsFrom(text, typeNorm, labels, i + 1)

matchThrows(e, labels) ==
  matchThrowsFrom(normalize(searchSource(e)), normalize(e.event_type), labels, 1)

\* "Sports"
SportsLabel ==
  <<"S","p","o","r","t","s">>
\* "?"
SymbolLabel ==
  <<"?">>
\* "Random Mixer"
TitleRandomMixer ==
  <<"R","a","n","d","o","m"," ","M","i","x","e","r">>
\* "Smart Talk"
TitleSmartTalk ==
  <<"S","m","a","r","t"," ","T","a","l","k">>
\* "Group Support"
TitleGroupSupport ==
  <<"G","r","o","u","p"," ","S","u","p","p","o","r","t">>
\* "Sports & Art!"
TitleSportsArt ==
  <<"S","p","o","r","t","s"," ","&"," ","A","r","t","!">>
\* "Come hang out"
DescHangOut ==
  <<"C","o","m","e"," ","h","a","n","g"," ","o","u","t">>
\* "<p>Yoga <b>session</b></p>"
DescYogaMarkup ==
  <<"<","p",">","Y","o","g","a"," ","<","b",">","s","e","s","s","i","o","n","<","/","b",">","<","/","p",">">>
\* "Social"
TypeSocial ==
  <<"S","o","c","i","a","l">>
\* "Wellness & Mental Health"
TypeWellness ==
  <<"W","e","l","l","n","e","s","s"," ","&"," ","M","e","n","t","a","l"," ","H","e","a","l","t","h">>
\* "Yoga Class"
TypeYogaClass ==
  <<"Y","o","g","a"," ","C","l","a","s","s">>
\* "Sports Day"
TypeSportsDay ==
  <<"S","p","o","r","t","s"," ","D","a","y">>
\* "SSMU"
OrgSSMU ==
  <<"S","S","M","U">>
\* "yoga"
TagYoga ==
  <<"y","o","g","a">>

----------------------------------------------------------------------------
(* The ranking revision of the feed: normalize without the "&" step, the    *)
(* substring filter and relevanceScore.  Time is counted in units of 10^9   *)
(* ms, and a score in units of 1/RecencyWindow, so that both are integers:  *)
(* 1_000_000_000_000 ms are RecencyWindow = 1000 units of time, and the     *)
(* division by 1e12 is the unit of the score.                               *)

normalizeR6(s) ==
  trim(collapseSpaces(replaceNonAlnum(toLowerCase(orEmpty(s)))))

\* CATEGORY_KEYWORDS[i] ?? [], ranking revision
keywordsOfR6(interest) ==
  IF interest \in DOMAIN CATEGORY_KEYWORDS_R6 THEN CATEGORY_KEYWORDS_R6[interest]
  ELSE <<>>

\* CATEGORY_KEYWORDS[i] is a member inherited from Object.prototype: kws.some
\* is no function and for...of over kws is a TypeError.
notIterableR6(interest) ==
  interest \notin DOMAIN CATEGORY_KEYWORDS_R6 /\ interest \in ObjectPrototypeKeys

\* interests.some(...) of the filter ends with a TypeError: it comes to such a
\* label before a label with a keyword in the text.
matchThrowsR6(e, labels) ==
  LET text == normalizeR6(searchSource(e))
  IN  \E i \in 1..Len(labels) :
        /\ notIterableR6(labels[i])
        /\ \A j \in 1..(i - 1) :
             \A k \in 1..Len(keywordsOfR6(labels[j])) :
               ~includes(text, normalizeR6(keywordsOfR6(labels[j])[k]))

\* interests.some((i) => kws.some((k) => text.includes(normalize(k))))
matchesR6(e, labels) ==
  LET text == normalizeR6(searchSource(e))
  IN  \E i \in 1..Len(labels) :
        \E k \in 1..Len(keywordsOfR6(labels[i])) :
          includes(text, normalizeR6(keywordsOfR6(labels[i])[k]))

\* The date of a row that does not parse: getTime() is NaN.
NaN == -1

KeywordWeight == 3
RecencyWindow == 1000

\* Variant of keywordScore: the keywords that are not in the text count.
RECURSIVE keywordScoreOfMisses(_, _, _)
keywordScoreOfMisses(text, kws, k) ==
  IF k > Len(kws) THEN 0
  ELSE (IF includes(text, normalizeR6(kws[k])) THEN 0 ELSE KeywordWeight)
         + keywordScoreOfMisses(text, kws, k + 1)

\* for (const kw of kws) if (text.includes(normalize(kw))) score += 3, over
\* the keywords kws[k..] of one interest.
RECURSIVE keywordScore(_, _, _)
keywordScore(text, kws, k) ==
  IF k > Len(kws) THEN 0
  ELSE (IF includes(text, normalizeR6(kws[k])) THEN KeywordWeight ELSE 0)
         + keywordScore(text, kws, k + 1)

\* The outer loop of relevanceScore, over the interests labels[i..].
RECURSIVE interestScore(_, _, _)
interestScore(text, labels, i) ==
  IF i > Len(labels) THEN 0
  ELSE keywordScore(text, keywordsOfR6(labels[i]), 1)
         + interestScore(text, labels, i + 1)

\* Math.max(0, 1_000_000_000_000 - (Date.now() - d)) / 1e12
recencyBonus(d, clock) ==
  IF RecencyWindow - (clock - d) > 0 THEN RecencyWindow - (clock - d) ELSE 0

relevanceScore(e, labels, clock) ==
  interestScore(normalizeR6(searchSource(e)), labels, 1) * RecencyWindow
    + (IF e.date # NaN THEN recencyBonus(e.date, clock) ELSE 0)

\* Variant of insertByScore: an entry whose score is already in the list is
\* left out.
insertByScoreUnique(sorted, x) ==
  IF \E i \in 1..Len(sorted) : sorted[i].score = x.score THEN sorted
  ELSE LET n == Cardinality({i \in 1..Len(sorted) : sorted[i].score > x.score})
       IN  SubSeq(sorted, 1, n) \o <<x>> \o SubSeq(sorted, n + 1, Len(sorted))

\* relevanceScore ends with a TypeError: its loops go through every interest.
relevanceScoreThrows(e, labels) ==
  \E i \in 1..Len(labels) : notIterableR6(labels[i])

\* .sort((a, b) => b.score - a.score): by score descending, equal scores in
\* their order in the list.
insertByScore(sorted, x) ==
  LET n == Cardinality({i \in 1..Len(sorted) : sorted[i].score >= x.score})
  IN  SubSeq(sorted, 1, n) \o <<x>> \o SubSeq(sorted, n + 1, Len(sorted))
RECURSIVE sortByScore(_)
sortByScore(list) ==
  IF list = <<>> THEN <<>>
  ELSE insertByScore(sortByScore(SubSeq(list, 1, Len(list) - 1)), list[Len(list)])

\* filtered.map((e) => ({ e, score: relevanceScore(e, interests) }))
scoreAll(filtered, labels, clock) ==
  [i \in 1..Len(filtered) |->
     [e |-> filtered[i], score |-> relevanceScore(filtered[i], labels, clock)]]

----------------------------------------------------------------------------
(* Feed assembly *)

\* Variant of upcoming: the rows of every date.
upcomingOrPast(rows, t) ==
  SelectSeq(rows, LAMBDA e : e.date # NaN)

\* (allEvents ?? []).filter((e) => !isNaN(d.getTime()) && d >= now)
upcoming(rows, t) ==
  SelectSeq(rows, LAMBDA e : e.date # NaN /\ e.date >= t)

\* (prefs ?? []).map((p) => p.interest_name).filter(Boolean)
namesOf(prefs) ==
  SelectSeq(prefs, LAMBDA name : name # null /\ name # <<>>)

\* Variant of feedR7: the filter is applied to a user without interests too.
feedR7AlwaysFiltered(rows, labels, t) ==
  SelectSeq(upcoming(rows, t), LAMBDA e : matchesByInterests(e, labels))

\* upcoming.filter((ev) => matchesByInterests(ev, interests)), or upcoming
\* itself for a user without interests.
feedR7(rows, labels, t) ==
  IF labels = <<>> THEN upcoming(rows, t)
  ELSE SelectSeq(upcoming(rows, t), LAMBDA e : matchesByInterests(e, labels))

\* The filter of the word-membership revision ends with a TypeError.
feedThrowsR7(rows, labels, t) ==
  /\ labels # <<>>
  /\ \E i \in 1..Len(upcoming(rows, t)) : matchThrows(upcoming(rows, t)[i], labels)

\* The filter or the scoring of the ranking revision ends with a TypeError:
\* relevanceScore goes through every interest for each filtered event.
feedThrowsR6(rows, labels, t) ==
  LET up == upcoming(rows, t)
  IN  /\ Len(labels) # 0
      /\ \/ \E i \in 1..Len(up) : matchThrowsR6(up[i], labels)
         \/ /\ \E i \in 1..Len(up) : matchesR6(up[i], labels)
            /\ \E j \in 1..Len(labels) : notIterableR6(labels[j])

\* interests.length ? upcoming.filter(...) : upcoming
filteredR6(rows, labels, t) ==
  IF Len(labels) # 0
    THEN SelectSeq(upcoming(rows, t), LAMBDA e : matchesR6(e, labels))
    ELSE upcoming(rows, t)

----------------------------------------------------------------------------
(* Inputs *)

\* "Therapy Dogs"
TitleTherapyDogs ==
  <<"T","h","e","r","a","p","y"," ","D","o","g","s">>
\* "Wellness, Mental Health & Stress Therapy"
TitleWellnessFive ==
  <<"W","e","l","l","n","e","s","s",","," ","M","e","n","t","a","l"," ","H","e","a","l","t","h"," ","&"," ","S","t","r","e","s","s"," ","T","h","e","r","a","p","y">>
\* "u1"
UserId ==
  <<"u","1">>

\* The inputs of a matcher run.
LabelPool ==
  {WellnessLabel, ArtsLabel, AcademicLabel, SportsLabel, SymbolLabel,
   ConstructorLabel}
TitlePool == {TitleRandomMixer, TitleSmartTalk, TitleGroupSupport, TitleSportsArt}
DescPool == {null, DescHangOut, DescYogaMarkup}
TypePool == {null, TypeSocial, TypeWellness, TypeYogaClass, TypeSportsDay}
OrgPool == {null, OrgSSMU}
TagsPool == {null, <<TagYoga>>}

MaxInterests == 2

\* The sequences over S of length at most n.
SeqUpTo(S, n) == UNION {[1..k -> S] : k \in 0..n}

\* The events of a matcher run: every title with every type, and every
\* description, type, organization and tag list under one title.
MatchEvents ==
  [title : TitlePool, description : {null}, event_type : TypePool,
   organization : {null}, tags : {null}]
  \cup
  [title : {TitleRandomMixer}, description : DescPool, event_type : TypePool,
   organization : OrgPool, tags : TagsPool]

\* The backend of a feed: the titles of the events rows, their dates, the
\* times of a load, and the stored interests.
FeedTitles == {TitleRandomMixer, TitleTherapyDogs, TitleWellnessFive}
EventDates == {0, 2, 3}
LoadTimes == {1, 2}
PrefPool == {WellnessLabel, ArtsLabel, ConstructorLabel}

MaxEvents == 2
MaxPrefs == 1

\* The events table: rows by date ascending (.order('date')), each with its
\* own id.
EventTables ==
  {[i \in 1..Len(rows) |->
      [id |-> i, title |-> rows[i][1], description |-> DescHangOut,
       event_type |-> null, organization |-> OrgSSMU, tags |-> null,
       date |-> rows[i][2]]] :
     rows \in {r \in SeqUpTo(FeedTitles \X EventDates, MaxEvents) :
                 \A i \in 1..(Len(r) - 1) : r[i][2] <= r[i + 1][2]}}

----------------------------------------------------------------------------
(* A matcher run: matchesByInterests applied to one event and one list of   *)
(* interest labels.                                                         *)

MatchIdle ==
  /\ ev = [title |-> TitleRandomMixer, description |-> null, event_type |-> null,
           organization |-> null, tags |-> null]
  /\ interests = <<>>
  /\ matchDone = FALSE
  /\ matched = FALSE
  /\ threw = FALSE

FeedIdle ==
  /\ revision = "R7"
  /\ user = null
  /\ dbPrefs = <<>>
  /\ dbEvents = <<>>
  /\ pc = "unmounted"
  /\ loadInterests = <<>>
  /\ allEvents = <<>>
  /\ now = 0
  /\ scored = <<>>
  /\ events = <<>>
  /\ loading = TRUE

PageIdle ==
  /\ currentPage = 0

\* The value of a result before the call that sets it has returned.
pending == <<"pending">>

PureIdle ==
  /\ matchLog = <<>>
  /\ scoreLog = <<>>

\* The ids of the events the user acts on: one event, since the tables and
\* the sets treat every event on its own.
UserEventIds == {"e1"}

UserIdle ==
  /\ savedEvents = {}
  /\ appliedEvents = {}
  /\ dbSaved = {}
  /\ dbApplications = [e \in UserEventIds |-> 0]
  /\ calendarOpens = [e \in UserEventIds |-> 0]
  /\ calls = <<>>
  /\ savedOk = {}
  /\ appliedOk = {}

\* The null of the state selectedEvent: Event | null; no event has id 0.
nullEvent == [id |-> 0]

ModalIdle ==
  /\ selectedEvent = nullEvent
  /\ isModalOpen = FALSE
  /\ closeTimers = 0

ReloadIdle ==
  /\ loads = <<>>
  /\ errorLogged = FALSE

SavedTabIdle ==
  /\ savedRows = <<>>
  /\ dbEventIds = {}
  /\ fetchPc = "unmounted"
  /\ eventIds = <<>>
  /\ eventsData = <<>>
  /\ savedTabEvents = <<>>
  /\ savedTabLoading = TRUE

\* No profiles row, and the null of a profile.
noProfile == [exists |-> FALSE, onboarded |-> "null"]

RetryIdle ==
  /\ profileRow = noProfile
  /\ retryPc = "unmounted"
  /\ attempt = 0
  /\ outcomes = <<>>
  /\ returned = noProfile
  /\ checkingOnboarding = FALSE
  /\ isOnboarded = FALSE

\* The names of the interests table that the onboarding screen offers.
OnboardingInterests == {WellnessLabel, ArtsLabel, SportsLabel}

PrefsIdle ==
  /\ prefRows = [i \in OnboardingInterests |-> 0]
  /\ prefsUnique = FALSE
  /\ selectedInterests = {}
  /\ lastSelected = {}
  /\ passes = 0

SideIdle ==
  /\ UserIdle
  /\ ModalIdle
  /\ ReloadIdle
  /\ SavedTabIdle
  /\ RetryIdle
  /\ PrefsIdle
  /\ PrefsIdle

NormIdle ==
  /\ normIn = null
  /\ normOut = pending
  /\ normAgain = pending
  /\ stripOut = pending
  /\ stripNormOut = pending
  /\ normOutR6 = pending

MatchInit ==
  /\ ev \in MatchEvents
  /\ interests \in SeqUpTo(LabelPool, MaxInterests)
  /\ matchDone = FALSE
  /\ matched = FALSE
  /\ threw = FALSE
  /\ FeedIdle
  /\ PageIdle
  /\ NormIdle
  /\ PureIdle
  /\ SideIdle

\* The call returns a boolean, or ends with the TypeError of its loop.
CallMatchesByInterests ==
  /\ ~matchDone
  /\ IF matchThrows(ev, interests)
       THEN threw' = TRUE /\ UNCHANGED matched
       ELSE threw' = FALSE /\ matched' = matchesByInterests(ev, interests)
  /\ matchDone' = TRUE
  /\ UNCHANGED <<ev, interests, feedVars, pageVars, normVars, pureVars, sideVars>>

MatchNext == CallMatchesByInterests

SpecMatch == MatchInit /\ [][MatchNext]_vars

----------------------------------------------------------------------------
(* The feed component: mounted with the useEffect about to call             *)
(* loadEventsWithPreferences, which awaits the user_preferences query and   *)
(* then the events query.  pc is "mounted", "prefs" (awaiting the first     *)
(* query), "events" (awaiting the second), and at the end "done", "caught"  *)
(* (the catch branch ran) or "nouser".                                      *)

Init ==
  /\ MatchIdle
  /\ NormIdle
  /\ PureIdle
  /\ SideIdle
  /\ revision \in {"R6", "R7"}
  /\ user \in {null, UserId}
  /\ dbPrefs \in SeqUpTo(PrefPool, MaxPrefs)
  /\ dbEvents \in EventTables
  /\ pc = "mounted"
  /\ loadInterests = <<>>
  /\ allEvents = <<>>
  /\ now = 0
  /\ scored = <<>>
  /\ events = <<>>
  /\ loading = TRUE
  /\ currentPage = 0

\* Word-membership revision: setLoading(true); without a user the feed is
\* emptied and loading ends.
LoadStartR7 ==
  /\ revision = "R7" /\ pc = "mounted"
  /\ IF user = null
       THEN /\ events' = <<>>
            /\ loading' = FALSE
            /\ pc' = "nouser"
       ELSE /\ loading' = TRUE
            /\ pc' = "prefs"
            /\ UNCHANGED events
  /\ UNCHANGED <<revision, user, dbPrefs, dbEvents, loadInterests, allEvents,
                 now, scored, matchVars, pageVars, normVars, pureVars, sideVars>>

\* The user_preferences query returns: an error is thrown and caught.
FetchPrefsR7 ==
  /\ revision = "R7" /\ pc = "prefs"
  /\ \E prefError \in BOOLEAN :
       IF prefError
         THEN /\ events' = <<>>
              /\ loading' = FALSE
              /\ pc' = "caught"
              /\ UNCHANGED loadInterests
         ELSE /\ loadInterests' = namesOf(dbPrefs)
              /\ pc' = "events"
              /\ UNCHANGED <<events, loading>>
  /\ UNCHANGED <<revision, user, dbPrefs, dbEvents, allEvents, now, scored,
                 matchVars, pageVars, normVars, pureVars, sideVars>>

\* The events query returns; the feed is set to the upcoming events, filtered
\* by matchesByInterests when the user has interests; a TypeError of the
\* filter is caught and the feed emptied.
FetchEventsR7 ==
  /\ revision = "R7" /\ pc = "events"
  /\ \E eventsError \in BOOLEAN :
       IF eventsError
         THEN /\ events' = <<>>
              /\ pc' = "caught"
              /\ UNCHANGED <<allEvents, now>>
         ELSE \E t \in LoadTimes :
                /\ allEvents' = dbEvents
                /\ now' = t
                /\ IF feedThrowsR7(dbEvents, loadInterests, t)
                     THEN events' = <<>> /\ pc' = "caught"
                     ELSE /\ events' = feedR7(dbEvents, loadInterests, t)
                          /\ pc' = "done"
  /\ loading' = FALSE
  /\ UNCHANGED <<revision, user, dbPrefs, dbEvents, loadInterests, scored,
                 matchVars, pageVars, normVars, pureVars, sideVars>>

\* Ranking revision: setLoading(true); without a user the loader returns and
\* the finally block ends loading.
LoadStartR6 ==
  /\ revision = "R6" /\ pc = "mounted"
  /\ IF user = null
       THEN /\ loading' = FALSE
            /\ pc' = "nouser"
       ELSE /\ loading' = TRUE
            /\ pc' = "prefs"
  /\ UNCHANGED <<revision, user, dbPrefs, dbEvents, loadInterests, allEvents,
                 now, scored, events, matchVars, pageVars, normVars, pureVars, sideVars>>

\* The user_preferences query returns; its error is not looked at, and
\* without data the interests are empty.
FetchPrefsR6 ==
  /\ revision = "R6" /\ pc = "prefs"
  /\ \E prefError \in BOOLEAN :
       loadInterests' = IF prefError THEN <<>> ELSE dbPrefs
  /\ pc' = "events"
  /\ UNCHANGED <<revision, user, dbPrefs, dbEvents, allEvents, now, scored,
                 events, loading, matchVars, pageVars, normVars, pureVars, sideVars>>

\* The events query returns; the filtered events are scored, sorted by score
\* and stored; a TypeError of the filter or of the scoring is caught and
\* logged, and the feed stays as it was.
FetchEventsR6 ==
  /\ revision = "R6" /\ pc = "events"
  /\ \E eventsError \in BOOLEAN : \E t \in LoadTimes :
       LET data == IF eventsError THEN <<>> ELSE dbEvents
           ranked == sortByScore(
                       scoreAll(filteredR6(data, loadInterests, t),
                                loadInterests, t))
       IN  /\ allEvents' = data
           /\ now' = t
           /\ IF feedThrowsR6(data, loadInterests, t)
                THEN /\ pc' = "caught"
                     /\ UNCHANGED <<scored, events>>
                ELSE /\ scored' = ranked
                     /\ events' = [i \in 1..Len(ranked) |-> ranked[i].e]
                     /\ pc' = "done"
  /\ loading' = FALSE
  /\ UNCHANGED <<revision, user, dbPrefs, dbEvents, loadInterests, matchVars, pageVars, normVars, pureVars, sideVars>>

Next ==
  \/ LoadStartR7
  \/ FetchPrefsR7
  \/ FetchEventsR7
  \/ LoadStartR6
  \/ FetchPrefsR6
  \/ FetchEventsR6

Spec == Init /\ [][Next]_vars

----------------------------------------------------------------------------
(* Paging of the feed, word-membership revision: the component after a load *)
(* of a user without interests that found the upcoming events of PageFeeds. *)
(* The Previous and Next buttons are drawn under a feed of more than        *)
(* eventsPerPage events; a click handled before the next render finds the   *)
(* page another click has set, so each handler runs from every page.        *)

eventsPerPage == 10

MaxFeedLen == 45

MathMin(a, b) == IF a <= b THEN a ELSE b
MathMax(a, b) == IF a >= b THEN a ELSE b

\* Math.ceil(events.length / eventsPerPage)
totalPagesOf(list) == (Len(list) + eventsPerPage - 1) \div eventsPerPage

\* events.slice(start, start + eventsPerPage), start = page * eventsPerPage
pageSliceOf(list, page) ==
  LET start == page * eventsPerPage
  IN  SubSeq(list, start + 1, MathMin(start + eventsPerPage, Len(list)))

\* Variant of nextPage: the page after p, whatever the number of pages.
nextPageUnclamped(total, p) == p + 1

\* Math.min(totalPages - 1, p + 1)
nextPage(total, p) == MathMin(total - 1, p + 1)

\* Math.max(0, p - 1)
previousPage(p) == MathMax(0, p - 1)

\* The feeds of up to MaxFeedLen upcoming events, in the order of the query.
PageFeeds ==
  {[i \in 1..n |->
      [id |-> i, title |-> TitleRandomMixer, description |-> DescHangOut,
       event_type |-> null, organization |-> OrgSSMU, tags |-> null,
       date |-> 3]] : n \in 0..MaxFeedLen}

PageInit ==
  /\ MatchIdle
  /\ NormIdle
  /\ PureIdle
  /\ SideIdle
  /\ revision = "R7"
  /\ user = UserId
  /\ dbPrefs = <<>>
  /\ dbEvents \in PageFeeds
  /\ pc = "done"
  /\ loadInterests = <<>>
  /\ allEvents = dbEvents
  /\ now = 2
  /\ scored = <<>>
  /\ events = feedR7(dbEvents, <<>>, 2)
  /\ loading = FALSE
  /\ currentPage = 0

\* The buttons are part of the list that is drawn when the load has ended
\* and the feed has more than eventsPerPage events.
PagerDrawn == ~loading /\ Len(events) > eventsPerPage

handleNextPage ==
  /\ PagerDrawn
  /\ currentPage' = nextPage(totalPagesOf(events), currentPage)
  /\ UNCHANGED <<matchVars, feedVars, normVars, pureVars, sideVars>>

handlePreviousPage ==
  /\ PagerDrawn
  /\ currentPage' = previousPage(currentPage)
  /\ UNCHANGED <<matchVars, feedVars, normVars, pureVars, sideVars>>

PageNext ==
  \/ handleNextPage
  \/ handlePreviousPage

SpecPage == PageInit /\ [][PageNext]_vars

----------------------------------------------------------------------------
(* A normalizer run: normalize and stripHTML applied to one string, and     *)
(* normalize applied to their results.                                      *)

\* "Arts & Crafts"
TextArtsCrafts ==
  <<"A","r","t","s"," ","&"," ","C","r","a","f","t","s">>
\* "self-care"
TextSelfCare ==
  <<"s","e","l","f","-","c","a","r","e">>
\* "Yoga session"
TextYogaSession ==
  <<"Y","o","g","a"," ","s","e","s","s","i","o","n">>
\* "Yo<b>ga</b>"
TextYogaSplit ==
  <<"Y","o","<","b",">","g","a","<","/","b",">">>

TextAlphabet == {"a", "B", "1", "&", "-", " ", "\t", "<", ">"}

MaxTextLen == 3

\* The strings handed to the normalizer: null, every string over TextAlphabet
\* of at most MaxTextLen characters, and some texts of events.
TextPool ==
  SeqUpTo(TextAlphabet, MaxTextLen)
    \cup {null, TextArtsCrafts, TextSelfCare, TextYogaSession, TextYogaSplit,
          DescYogaMarkup, TitleSportsArt, TitleWellnessFive}

NormInit ==
  /\ MatchIdle
  /\ FeedIdle
  /\ PageIdle
  /\ PureIdle
  /\ SideIdle
  /\ normIn \in TextPool
  /\ normOut = pending
  /\ normAgain = pending
  /\ stripOut = pending
  /\ stripNormOut = pending
  /\ normOutR6 = pending

CallNormalize ==
  /\ normOut = pending
  /\ normOut' = normalize(normIn)
  /\ UNCHANGED <<normIn, normAgain, stripOut, stripNormOut, normOutR6,
                 matchVars, feedVars, pageVars, pureVars, sideVars>>

CallNormalizeAgain ==
  /\ normOut # pending /\ normAgain = pending
  /\ normAgain' = normalize(normOut)
  /\ UNCHANGED <<normIn, normOut, stripOut, stripNormOut, normOutR6,
                 matchVars, feedVars, pageVars, pureVars, sideVars>>

CallStripHTML ==
  /\ stripOut = pending
  /\ stripOut' = stripHTML(normIn)
  /\ UNCHANGED <<normIn, normOut, normAgain, stripNormOut, normOutR6,
                 matchVars, feedVars, pageVars, pureVars, sideVars>>

CallNormalizeStripped ==
  /\ stripOut # pending /\ stripNormOut = pending
  /\ stripNormOut' = normalize(stripOut)
  /\ UNCHANGED <<normIn, normOut, normAgain, stripOut, normOutR6,
                 matchVars, feedVars, pageVars, pureVars, sideVars>>

CallNormalizeR6 ==
  /\ normOutR6 = pending
  /\ normOutR6' = normalizeR6(normIn)
  /\ UNCHANGED <<normIn, normOut, normAgain, stripOut, stripNormOut,
                 matchVars, feedVars, pageVars, pureVars, sideVars>>

NormNext ==
  \/ CallNormalize
  \/ CallNormalizeAgain
  \/ CallStripHTML
  \/ CallNormalizeStripped
  \/ CallNormalizeR6

SpecNormalize == NormInit /\ [][NormNext]_vars

----------------------------------------------------------------------------
(* Invocations of the core: matchesByInterests and relevanceScore called    *)
(* up to MaxCalls times each, in any order, on one event and one list of    *)
(* interest labels.  relevanceScore reads the clock, Date.now(), which does *)
(* not go back between two calls.                                           *)

MaxCalls == 2

PureEvents ==
  [title : {TitleTherapyDogs, TitleWellnessFive}, description : {null},
   event_type : {null, TypeSocial}, organization : {null}, tags : {null},
   date : {0, 3}]

PureInit ==
  /\ ev \in PureEvents
  /\ interests \in SeqUpTo({WellnessLabel, ConstructorLabel}, MaxInterests)
  /\ matchDone = FALSE
  /\ matched = FALSE
  /\ threw = FALSE
  /\ FeedIdle
  /\ PageIdle
  /\ NormIdle
  /\ matchLog = <<>>
  /\ scoreLog = <<>>
  /\ SideIdle

InvokeMatchesByInterests ==
  /\ Len(matchLog) < MaxCalls
  /\ matchLog' =
       Append(matchLog,
              IF matchThrows(ev, interests)
                THEN [threw |-> TRUE, value |-> FALSE]
                ELSE [threw |-> FALSE, value |-> matchesByInterests(ev, interests)])
  /\ UNCHANGED <<scoreLog, matchVars, feedVars, pageVars, normVars, sideVars>>

\* Variant of InvokeRelevanceScore: score is not set to 0 at the start of a
\* call and goes on from the result of the call before.
InvokeRelevanceScoreAccumulating ==
  /\ Len(scoreLog) < MaxCalls
  /\ \E t \in LoadTimes :
       /\ scoreLog # <<>> => t >= scoreLog[Len(scoreLog)].clock
       /\ scoreLog' =
            Append(scoreLog,
                   IF relevanceScoreThrows(ev, interests)
                     THEN [clock |-> t, threw |-> TRUE, score |-> 0]
                     ELSE [clock |-> t, threw |-> FALSE,
                           score |-> relevanceScore(ev, interests, t)
                                       + (IF scoreLog = <<>> THEN 0
                                          ELSE scoreLog[Len(scoreLog)].score)])
  /\ UNCHANGED <<matchLog, matchVars, feedVars, pageVars, normVars, sideVars>>

InvokeRelevanceScore ==
  /\ Len(scoreLog) < MaxCalls
  /\ \E t \in LoadTimes :
       /\ scoreLog # <<>> => t >= scoreLog[Len(scoreLog)].clock
       /\ scoreLog' =
            Append(scoreLog,
                   IF relevanceScoreThrows(ev, interests)
                     THEN [clock |-> t, threw |-> TRUE, score |-> 0]
                     ELSE [clock |-> t, threw |-> FALSE,
                           score |-> relevanceScore(ev, interests, t)])
  /\ UNCHANGED <<matchLog, matchVars, feedVars, pageVars, normVars, sideVars>>

PureNext ==
  \/ InvokeMatchesByInterests
  \/ InvokeRelevanceScore

SpecPure == PureInit /\ [][PureNext]_vars

----------------------------------------------------------------------------
(* The user's saved events and applications: loadUserData, handleSave and   *)
(* handleApply of the feed component, revisions R6 and R7.  Each call is    *)
(* asynchronous: it is invoked, the backend serves its request, and the     *)
(* rest of the function runs on the answer.  Calls overlap freely.          *)

MaxRequests == 2
MaxOpens == 2

RemoveAt(s, i) == SubSeq(s, 1, i - 1) \o SubSeq(s, i + 1, Len(s))

\* insert into applications with UNIQUE(user_id, event_id); any insert goes
\* through.
insertApplicationNoUnique(rows, e) ==
  [rows |-> [rows EXCEPT ![e] = @ + 1], error |-> FALSE]

\* insert into applications: UNIQUE(user_id, event_id) rejects a second row.
insertApplication(rows, e) ==
  IF rows[e] > 0
    THEN [rows |-> rows, error |-> TRUE]
    ELSE [rows |-> [rows EXCEPT ![e] = @ + 1], error |-> FALSE]

\* insert into saved_events: PRIMARY KEY (user_id, event_id) rejects a second
\* row.
insertSaved(rows, e) ==
  IF e \in rows
    THEN [rows |-> rows, error |-> TRUE]
    ELSE [rows |-> rows \cup {e}, error |-> FALSE]

\* The data of the answer to a select: none, or the event_id of its rows.
noData == [data |-> FALSE, rows |-> {}]
dataOf(rows) == [data |-> TRUE, rows |-> rows]

\* The component is mounted for a signed-in user; the effect on [user] has
\* called loadUserData, whose request is under way.  The tables hold the rows
\* of earlier sessions.
UserInit ==
  /\ MatchIdle
  /\ revision \in {"R6", "R7"}
  /\ user = UserId
  /\ dbPrefs = <<>>
  /\ dbEvents = <<>>
  /\ pc = "unmounted"
  /\ loadInterests = <<>>
  /\ allEvents = <<>>
  /\ now = 0
  /\ scored = <<>>
  /\ events = <<>>
  /\ loading = TRUE
  /\ PageIdle
  /\ NormIdle
  /\ PureIdle
  /\ savedEvents = {}
  /\ appliedEvents = {}
  /\ dbSaved \in SUBSET UserEventIds
  /\ \E applied \in SUBSET UserEventIds :
       dbApplications = [e \in UserEventIds |-> IF e \in applied THEN 1 ELSE 0]
  /\ calendarOpens = [e \in UserEventIds |-> 0]
  /\ calls = << [kind |-> "load", stage |-> "sent"] >>
  /\ savedOk = {}
  /\ appliedOk = {}
  /\ ModalIdle
  /\ ReloadIdle
  /\ SavedTabIdle
  /\ RetryIdle
  /\ PrefsIdle

userRest ==
  <<matchVars, feedVars, pageVars, normVars, pureVars, modalVars, reloadVars,
    savedTabVars, retryVars, prefsVars>>

\* The effect on [user] runs again and calls loadUserData.
loadUserData ==
  /\ user # null
  /\ Len(calls) < MaxRequests
  /\ calls' = Append(calls, [kind |-> "load", stage |-> "sent"])
  /\ UNCHANGED <<savedEvents, appliedEvents, dbSaved, dbApplications,
                 calendarOpens, savedOk, appliedOk, userRest>>

\* The backend serves the two selects: each answers with its rows or with no
\* data, or the request fails and Promise.all rejects.
ServeLoad ==
  \E i \in 1..Len(calls) :
    /\ calls[i].kind = "load"
    /\ calls[i].stage = "sent"
    /\ \E savedData \in {noData, dataOf(dbSaved)},
          appliedData \in
            {noData, dataOf({e \in UserEventIds : dbApplications[e] > 0})},
          rejected \in BOOLEAN :
         calls' = [calls EXCEPT ![i] =
                     [kind |-> "load", stage |-> "answered",
                      saved |-> IF rejected THEN noData ELSE savedData,
                      applied |-> IF rejected THEN noData ELSE appliedData]]
    /\ UNCHANGED <<savedEvents, appliedEvents, dbSaved, dbApplications,
                   calendarOpens, savedOk, appliedOk, userRest>>

\* loadUserData after its await: each state is set from the data that came.
LoadAnswered ==
  \E i \in 1..Len(calls) :
    /\ calls[i].kind = "load"
    /\ calls[i].stage = "answered"
    /\ savedEvents' =
         IF calls[i].saved.data THEN calls[i].saved.rows ELSE savedEvents
    /\ appliedEvents' =
         IF calls[i].applied.data THEN calls[i].applied.rows
         ELSE appliedEvents
    /\ calls' = RemoveAt(calls, i)
    /\ UNCHANGED <<dbSaved, dbApplications, calendarOpens, savedOk, appliedOk,
                   userRest>>

\* handleSave up to its await: the branch is chosen by savedEvents.has.
handleSave ==
  \E e \in UserEventIds :
    /\ user # null
    /\ Len(calls) < MaxRequests
    /\ calls' =
         Append(calls,
                [kind |-> "save", event |-> e, stage |-> "sent",
                 op |-> IF e \in savedEvents THEN "delete" ELSE "insert"])
    /\ savedOk' = IF e \in savedEvents THEN savedOk \ {e} ELSE savedOk
    /\ UNCHANGED <<savedEvents, appliedEvents, dbSaved, dbApplications,
                   calendarOpens, appliedOk, userRest>>

\* The backend serves the delete or the insert: it is carried out and
\* answered, or refused with an error, or the request fails before or after it
\* was carried out.
ServeSave ==
  \E i \in 1..Len(calls) :
    /\ calls[i].kind = "save"
    /\ calls[i].stage = "sent"
    /\ LET e == calls[i].event
           done == IF calls[i].op = "delete"
                     THEN [rows |-> dbSaved \ {e}, error |-> FALSE]
                     ELSE insertSaved(dbSaved, e)
       IN \E outcome \in {"served", "refused", "failed", "failedAfter"} :
            /\ dbSaved' =
                 IF outcome \in {"served", "failedAfter"} THEN done.rows
                 ELSE dbSaved
            /\ calls' = [calls EXCEPT ![i] =
                 [kind |-> "save", event |-> e, op |-> calls[i].op,
                  stage |-> "answered",
                  result |-> CASE outcome = "served" ->
                                    IF done.error THEN "error" ELSE "ok"
                               [] outcome = "refused" -> "error"
                               [] OTHER -> "threw"]]
    /\ UNCHANGED <<savedEvents, appliedEvents, dbApplications, calendarOpens,
                   savedOk, appliedOk, userRest>>

\* handleSave after its await.  R7 returns on an error; R6 does not look at
\* the answer.  A failed request ends the function in both.
SaveAnswered ==
  \E i \in 1..Len(calls) :
    /\ calls[i].kind = "save"
    /\ calls[i].stage = "answered"
    /\ LET e == calls[i].event
           goesOn == \/ calls[i].result = "ok"
                     \/ revision = "R6" /\ calls[i].result = "error"
       IN /\ savedEvents' =
               IF ~goesOn THEN savedEvents
               ELSE IF calls[i].op = "delete" THEN savedEvents \ {e}
               ELSE savedEvents \cup {e}
          /\ savedOk' =
               IF calls[i].result = "ok" /\ calls[i].op = "insert"
                 THEN savedOk \cup {e}
                 ELSE savedOk
    /\ calls' = RemoveAt(calls, i)
    /\ UNCHANGED <<appliedEvents, dbSaved, dbApplications, calendarOpens,
                   appliedOk, userRest>>

\* handleApply up to its await: it returns at once for an applied event.
handleApply ==
  \E e \in UserEventIds :
    /\ user # null
    /\ Len(calls) < MaxRequests
    /\ calendarOpens[e] < MaxOpens
    /\ calls' =
         IF e \in appliedEvents THEN calls
         ELSE Append(calls, [kind |-> "apply", event |-> e, stage |-> "sent"])
    /\ UNCHANGED <<savedEvents, appliedEvents, dbSaved, dbApplications,
                   calendarOpens, savedOk, appliedOk, userRest>>

\* The backend serves the insert into applications.
ServeApply ==
  \E i \in 1..Len(calls) :
    /\ calls[i].kind = "apply"
    /\ calls[i].stage = "sent"
    /\ LET e == calls[i].event
           done == insertApplication(dbApplications, e)
       IN \E outcome \in {"served", "refused", "failed", "failedAfter"} :
            /\ dbApplications' =
                 IF outcome \in {"served", "failedAfter"} THEN done.rows
                 ELSE dbApplications
            /\ calls' = [calls EXCEPT ![i] =
                 [kind |-> "apply", event |-> e, stage |-> "answered",
                  result |-> CASE outcome = "served" ->
                                    IF done.error THEN "error" ELSE "ok"
                               [] outcome = "refused" -> "error"
                               [] OTHER -> "threw"]]
    /\ UNCHANGED <<savedEvents, appliedEvents, dbSaved, calendarOpens,
                   savedOk, appliedOk, userRest>>

\* handleApply after its await: the event is added to appliedEvents and the
\* calendar page is opened.  R7 returns on an error; R6 does not look at the
\* answer.
ApplyAnswered ==
  \E i \in 1..Len(calls) :
    /\ calls[i].kind = "apply"
    /\ calls[i].stage = "answered"
    /\ LET e == calls[i].event
           goesOn == \/ calls[i].result = "ok"
                     \/ revision = "R6" /\ calls[i].result = "error"
       IN /\ appliedEvents' =
               IF goesOn THEN appliedEvents \cup {e} ELSE appliedEvents
          /\ calendarOpens' =
               IF goesOn THEN [calendarOpens EXCEPT ![e] = @ + 1]
               ELSE calendarOpens
          /\ appliedOk' =
               IF calls[i].result = "ok" THEN appliedOk \cup {e} ELSE appliedOk
    /\ calls' = RemoveAt(calls, i)
    /\ UNCHANGED <<savedEvents, dbSaved, dbApplications, savedOk, userRest>>

UserNext ==
  \/ loadUserData
  \/ ServeLoad
  \/ LoadAnswered
  \/ handleSave
  \/ ServeSave
  \/ SaveAnswered
  \/ handleApply
  \/ ServeApply
  \/ ApplyAnswered

SpecUser == UserInit /\ [][UserNext]_vars

----------------------------------------------------------------------------
(* The event modal of the feed component: openModal from a card of the page *)
(* shown, closeModal from the modal, and the timer closeModal sets.         *)

MaxTimers == 2

modalRest ==
  <<matchVars, feedVars, pageVars, normVars, pureVars, userVars, reloadVars,
    savedTabVars, retryVars, prefsVars>>

\* EventModal draws nothing unless isOpen and event are both set.
ModalDrawn == isModalOpen /\ selectedEvent # nullEvent

\* "View details" on a card of the page slice; the cards lie under the modal
\* while it is drawn.
openModal ==
  /\ ~loading
  /\ ~ModalDrawn
  /\ \E i \in 1..Len(pageSliceOf(events, currentPage)) :
       selectedEvent' = pageSliceOf(events, currentPage)[i]
  /\ isModalOpen' = TRUE
  /\ UNCHANGED <<closeTimers, modalRest>>

\* onClose of the modal (its close controls, or Escape while isOpen):
\* setIsModalOpen(false) and setTimeout(() => setSelectedEvent(null), 250).
closeModal ==
  /\ isModalOpen
  /\ closeTimers < MaxTimers
  /\ isModalOpen' = FALSE
  /\ closeTimers' = closeTimers + 1
  /\ UNCHANGED <<selectedEvent, modalRest>>

\* A timer of closeModal fires: setSelectedEvent(null).
CloseTimerFires ==
  /\ closeTimers > 0
  /\ closeTimers' = closeTimers - 1
  /\ selectedEvent' = nullEvent
  /\ UNCHANGED <<isModalOpen, modalRest>>

ModalNext ==
  \/ handleNextPage
  \/ handlePreviousPage
  \/ openModal
  \/ closeModal
  \/ CloseTimerFires

SpecModal == PageInit /\ [][ModalNext]_vars

----------------------------------------------------------------------------
(* The feed component of src/components/FeedTab.tsx: loads of the feed that *)
(* overlap, started at mount and by every change of the user's preferences, *)
(* and the pager.  revision is "TSX" here.                                  *)

MaxLoads == 2
ReloadFeedLen == 24

\* "Social", "Yoga"
SocialInterest ==
  <<"S","o","c","i","a","l">>
YogaInterest ==
  <<"Y","o","g","a">>

\* The line break and the indentation between two fields of the template.
FieldBreak ==
  <<"\n"," "," "," "," "," "," "," "," "," "," "," "," ">>
LastBreak ==
  <<"\n"," "," "," "," "," "," "," "," "," "," ">>

\* x || ""
orEmptyString(x) == IF x = null \/ x = <<>> THEN <<>> ELSE x

\* (event.tags || []).join(" ")
RECURSIVE joinTags(_)
joinTags(tags) ==
  IF tags = null \/ tags = <<>> THEN <<>>
  ELSE IF Len(tags) = 1 THEN tags[1]
  ELSE tags[1] \o <<" ">> \o joinTags(Tail(tags))

\* The template of title, description, organization, tags and event_type,
\* in lower case.
searchTextTsx(e) ==
  toLowerCase(FieldBreak \o orEmptyString(e.title)
              \o FieldBreak \o orEmptyString(e.description)
              \o FieldBreak \o orEmptyString(e.organization)
              \o FieldBreak \o joinTags(e.tags)
              \o FieldBreak \o orEmptyString(e.event_type)
              \o LastBreak)

\* preferences?.map((p) => p.interest_name.toLowerCase()) || []
userInterestsOf(prefs) == [i \in 1..Len(prefs) |-> toLowerCase(prefs[i])]

keepsTsx(e, userInterests) ==
  \E i \in 1..Len(userInterests) :
    includes(searchTextTsx(e), toLowerCase(userInterests[i]))

\* The filter of step 3: every event without interests, else the events
\* whose text includes some interest.
filteredEventsTsx(rows, userInterests) ==
  IF Len(userInterests) > 0
    THEN SelectSeq(rows, LAMBDA e : keepsTsx(e, userInterests))
    ELSE rows

ReloadPrefs == {<<>>, <<SocialInterest>>, <<YogaInterest>>}

ReloadEvents ==
  [i \in 1..ReloadFeedLen |->
     [id |-> i, title |-> TitleSmartTalk, description |-> null,
      event_type |-> IF i % 4 = 0 THEN TypeSocial ELSE TypeYogaClass,
      organization |-> null, tags |-> null, date |-> 3]]

\* The component has mounted for a signed-in user and the effect on [user]
\* has called loadEventsWithPreferences.
ReloadInit ==
  /\ MatchIdle
  /\ NormIdle
  /\ PureIdle
  /\ UserIdle
  /\ ModalIdle
  /\ revision = "TSX"
  /\ user = UserId
  /\ dbPrefs \in ReloadPrefs
  /\ dbEvents = ReloadEvents
  /\ pc = "mounted"
  /\ loadInterests = <<>>
  /\ allEvents = <<>>
  /\ now = 0
  /\ scored = <<>>
  /\ events = <<>>
  /\ loading = TRUE
  /\ currentPage = 0
  /\ loads = << [stage |-> "prefs", userInterests |-> <<>>] >>
  /\ errorLogged = FALSE
  /\ SavedTabIdle
  /\ RetryIdle
  /\ PrefsIdle

reloadRest ==
  <<prefsVars, matchVars, normVars, pureVars, userVars, modalVars, savedTabVars, retryVars,
    revision, user, pc, loadInterests, allEvents, now, scored>>

\* The user's user_preferences rows change and the realtime channel calls
\* loadEventsWithPreferences.
PreferencesChanged ==
  /\ Len(loads) < MaxLoads
  /\ \E prefs \in ReloadPrefs \ {dbPrefs} : dbPrefs' = prefs
  /\ loads' = Append(loads, [stage |-> "prefs", userInterests |-> <<>>])
  /\ UNCHANGED <<dbEvents, events, loading, currentPage, errorLogged,
                 reloadRest>>

\* The select on user_preferences is answered: with an error the load goes
\* to its catch and finally, else it goes on to the select on events.
PreferencesAnswered ==
  \E i \in 1..Len(loads) :
    /\ loads[i].stage = "prefs"
    /\ \E prefError \in BOOLEAN :
         IF prefError
           THEN /\ events' = <<>>
                /\ loading' = FALSE
                /\ errorLogged' = TRUE
                /\ loads' = RemoveAt(loads, i)
           ELSE /\ loads' = [loads EXCEPT ![i] =
                              [stage |-> "events",
                               userInterests |-> userInterestsOf(dbPrefs)]]
                /\ UNCHANGED <<events, loading, errorLogged>>
    /\ UNCHANGED <<dbPrefs, dbEvents, currentPage, reloadRest>>

\* The select on events is answered: the load filters, sets the feed and
\* ends; with an error it goes to its catch and finally.
EventsAnswered ==
  \E i \in 1..Len(loads) :
    /\ loads[i].stage = "events"
    /\ \E eventsError \in BOOLEAN :
         IF eventsError
           THEN /\ events' = <<>>
                /\ errorLogged' = TRUE
           ELSE /\ events' = filteredEventsTsx(dbEvents, loads[i].userInterests)
                /\ UNCHANGED errorLogged
    /\ loading' = FALSE
    /\ loads' = RemoveAt(loads, i)
    /\ UNCHANGED <<dbPrefs, dbEvents, currentPage, reloadRest>>

\* The list and the pager are drawn.
PagerDrawnTsx == ~loading /\ Len(events) > eventsPerPage

\* "Next Page", drawn while (currentPage + 1) * eventsPerPage < events.length.
handleNextPageTsx ==
  /\ PagerDrawnTsx
  /\ (currentPage + 1) * eventsPerPage < Len(events)
  /\ currentPage' = currentPage + 1
  /\ UNCHANGED <<dbPrefs, dbEvents, events, loading, loads, errorLogged,
                 reloadRest>>

\* "Previous Page", drawn while currentPage > 0.
handlePreviousPageTsx ==
  /\ PagerDrawnTsx
  /\ currentPage > 0
  /\ currentPage' = currentPage - 1
  /\ UNCHANGED <<dbPrefs, dbEvents, events, loading, loads, errorLogged,
                 reloadRest>>

ReloadNext ==
  \/ PreferencesChanged
  \/ PreferencesAnswered
  \/ EventsAnswered
  \/ handleNextPageTsx
  \/ handlePreviousPageTsx

SpecReload == ReloadInit /\ [][ReloadNext]_vars

----------------------------------------------------------------------------
(* The saved tab: fetchSavedEvents of src/components/SavedTab.tsx, called   *)
(* by the effect on [user].                                                 *)

MaxSaved == 3
SavedIds == 1..MaxSaved
CreatedAts == {1, 2}

\* The tables saved_events with PRIMARY KEY (user_id, event_id), for one
\* user: no two rows with one event_id.
SavedTables ==
  {{[event_id |-> i, created_at |-> f[i]] : i \in S} :
     S \in SUBSET SavedIds, f \in [SavedIds -> CreatedAts]}

\* .order('created_at', { ascending: false }): the rows in an order in which
\* created_at does not go up; rows of one created_at come in any order.
orderedByCreatedAtDesc(rows) ==
  {q \in [1..Cardinality(rows) -> rows] :
     /\ \A i, j \in DOMAIN q : i # j => q[i] # q[j]
     /\ \A i, j \in DOMAIN q : i < j => q[i].created_at >= q[j].created_at}

\* .in('id', eventIds): the events rows of these ids, in any order.
eventsIn(ids, present) ==
  LET wanted == {ids[i] : i \in 1..Len(ids)} \cap present
  IN  {q \in [1..Cardinality(wanted) -> {[id |-> i] : i \in wanted}] :
         \A i, j \in DOMAIN q : i # j => q[i] # q[j]}

\* Variant of orderedEvents: the events in the order the select answered.
orderedEventsAsAnswered(ids, rows) == rows

\* eventIds.map((id) => events?.find((e) => e.id === id)).filter(!!e)
orderedEvents(ids, rows) ==
  LET found == SelectSeq(ids, LAMBDA id : \E k \in 1..Len(rows) : rows[k].id = id)
  IN  [i \in 1..Len(found) |->
         rows[CHOOSE k \in 1..Len(rows) :
                /\ rows[k].id = found[i]
                /\ \A m \in 1..(k - 1) : rows[m].id # found[i]]]

SavedInit ==
  /\ MatchIdle
  /\ FeedIdle
  /\ PageIdle
  /\ NormIdle
  /\ PureIdle
  /\ UserIdle
  /\ ModalIdle
  /\ ReloadIdle
  /\ savedRows \in SavedTables
  /\ dbEventIds \in SUBSET SavedIds
  /\ fetchPc = "mounted"
  /\ eventIds = <<>>
  /\ eventsData = <<>>
  /\ savedTabEvents = <<>>
  /\ savedTabLoading = TRUE
  /\ RetryIdle
  /\ PrefsIdle

savedRest ==
  <<matchVars, feedVars, pageVars, normVars, pureVars, userVars, modalVars,
    reloadVars, retryVars, prefsVars>>

\* fetchSavedEvents up to its first await.
fetchSavedEvents ==
  /\ fetchPc = "mounted"
  /\ savedTabLoading' = TRUE
  /\ fetchPc' = "saved"
  /\ UNCHANGED <<savedRows, dbEventIds, eventIds, eventsData, savedTabEvents,
                 savedRest>>

\* The select on saved_events is answered: an error goes to catch and
\* finally; no rows end the function with an empty list; else the ids are
\* kept and the select on events is sent.
SavedIdsAnswered ==
  /\ fetchPc = "saved"
  /\ \E savedErr \in BOOLEAN, saved \in orderedByCreatedAtDesc(savedRows) :
       IF savedErr
         THEN /\ savedTabEvents' = <<>>
              /\ savedTabLoading' = FALSE
              /\ fetchPc' = "failed"
              /\ UNCHANGED eventIds
         ELSE IF Len(saved) = 0
           THEN /\ savedTabEvents' = <<>>
                /\ savedTabLoading' = FALSE
                /\ fetchPc' = "done"
                /\ UNCHANGED eventIds
         ELSE /\ eventIds' = [i \in 1..Len(saved) |-> saved[i].event_id]
              /\ fetchPc' = "events"
              /\ UNCHANGED <<savedTabEvents, savedTabLoading>>
  /\ UNCHANGED <<savedRows, dbEventIds, eventsData, savedRest>>

\* The select on events is answered: an error goes to catch and finally;
\* else the rows that came, none when data is null, are put in the order of
\* eventIds.
SavedEventsAnswered ==
  /\ fetchPc = "events"
  /\ \E eventsErr \in BOOLEAN, rows \in eventsIn(eventIds, dbEventIds) \cup {<<>>} :
       IF eventsErr
         THEN /\ savedTabEvents' = <<>>
              /\ fetchPc' = "failed"
              /\ UNCHANGED eventsData
         ELSE /\ eventsData' = rows
              /\ savedTabEvents' = orderedEvents(eventIds, rows)
              /\ fetchPc' = "done"
  /\ savedTabLoading' = FALSE
  /\ UNCHANGED <<savedRows, dbEventIds, eventIds, savedRest>>

SavedNext ==
  \/ fetchSavedEvents
  \/ SavedIdsAnswered
  \/ SavedEventsAnswered

SpecSaved == SavedInit /\ [][SavedNext]_vars

----------------------------------------------------------------------------
(* The onboarding check of the app component: checkOnboardingStatus with    *)
(* its helper checkProfileWithRetry.  The profiles row of a new user may    *)
(* appear while the check is under way.                                     *)

retries == 3

Profiles ==
  {noProfile} \cup [exists : {TRUE}, onboarded : {"true", "false", "null"}]

\* Variant of isOnboardedOf: any profile counts as onboarded.
isOnboardedOfAnyProfile(profile) == profile.exists

\* existingProfile && existingProfile.onboarded === true
isOnboardedOf(profile) == profile.exists /\ profile.onboarded = "true"

RetryInit ==
  /\ MatchIdle
  /\ NormIdle
  /\ PureIdle
  /\ PageIdle
  /\ UserIdle
  /\ ModalIdle
  /\ ReloadIdle
  /\ SavedTabIdle
  /\ revision = "R7"
  /\ user \in {null, UserId}
  /\ dbPrefs = <<>>
  /\ dbEvents = <<>>
  /\ pc = "unmounted"
  /\ loadInterests = <<>>
  /\ allEvents = <<>>
  /\ now = 0
  /\ scored = <<>>
  /\ events = <<>>
  /\ loading = TRUE
  /\ profileRow \in Profiles
  /\ retryPc = "mounted"
  /\ attempt = 0
  /\ outcomes = <<>>
  /\ returned = noProfile
  /\ checkingOnboarding = FALSE
  /\ isOnboarded = FALSE
  /\ PrefsIdle

retryRest ==
  <<matchVars, feedVars, pageVars, normVars, pureVars, userVars, modalVars,
    reloadVars, savedTabVars, prefsVars>>

\* The profiles row of a new user is created.
ProfileCreated ==
  /\ ~profileRow.exists
  /\ retryPc # "done"
  /\ profileRow' = [exists |-> TRUE, onboarded |-> "false"]
  /\ UNCHANGED <<retryPc, attempt, outcomes, returned, checkingOnboarding,
                 isOnboarded, retryRest>>

\* The user completes the onboarding in another session: the profiles row is
\* updated to onboarded = true.
ProfileOnboarded ==
  /\ profileRow.exists
  /\ profileRow.onboarded # "true"
  /\ retryPc # "done"
  /\ profileRow' = [exists |-> TRUE, onboarded |-> "true"]
  /\ UNCHANGED <<retryPc, attempt, outcomes, returned, checkingOnboarding,
                 isOnboarded, retryRest>>

\* The user edits the preferences in another session: handleEditPreferences
\* updates the profiles row to onboarded = false.
ProfileReset ==
  /\ profileRow.exists
  /\ profileRow.onboarded = "true"
  /\ retryPc # "done"
  /\ profileRow' = [exists |-> TRUE, onboarded |-> "false"]
  /\ UNCHANGED <<retryPc, attempt, outcomes, returned, checkingOnboarding,
                 isOnboarded, retryRest>>

\* checkOnboardingStatus up to the first query of checkProfileWithRetry;
\* without a user it returns at once.
checkOnboardingStatus ==
  /\ retryPc = "mounted"
  /\ IF user = null
       THEN /\ retryPc' = "done"
            /\ UNCHANGED <<checkingOnboarding, attempt>>
       ELSE /\ checkingOnboarding' = TRUE
            /\ attempt' = 0
            /\ retryPc' = "query"
  /\ UNCHANGED <<profileRow, outcomes, returned, isOnboarded, retryRest>>

\* A profile query is answered.  With an error or without a row the helper
\* waits and tries again unless this was the last try; with a row it
\* returns the row.  When the helper has returned, or the request has
\* failed, checkOnboardingStatus runs to its end.
ProfileAnswered ==
  /\ retryPc = "query"
  /\ \E answer \in {"error", "data", "threw"} :
       LET outcome == IF answer = "data"
                        THEN (IF profileRow.exists THEN "row" ELSE "none")
                        ELSE answer
           last == attempt = retries - 1
       IN /\ outcomes' = Append(outcomes, outcome)
          /\ IF outcome = "threw"
               THEN /\ isOnboarded' = FALSE
                    /\ checkingOnboarding' = FALSE
                    /\ retryPc' = "done"
                    /\ UNCHANGED returned
             ELSE IF outcome = "row"
               THEN /\ returned' = profileRow
                    /\ isOnboarded' = isOnboardedOf(profileRow)
                    /\ checkingOnboarding' = FALSE
                    /\ retryPc' = "done"
             ELSE IF last
               THEN /\ returned' = noProfile
                    /\ isOnboarded' = isOnboardedOf(noProfile)
                    /\ checkingOnboarding' = FALSE
                    /\ retryPc' = "done"
             ELSE /\ retryPc' = "delay"
                  /\ UNCHANGED <<returned, isOnboarded, checkingOnboarding>>
  /\ UNCHANGED <<profileRow, attempt, retryRest>>

\* The delay of 500 ms is over: i++ and the next query.
DelayElapsed ==
  /\ retryPc = "delay"
  /\ attempt' = attempt + 1
  /\ retryPc' = "query"
  /\ UNCHANGED <<profileRow, outcomes, returned, checkingOnboarding,
                 isOnboarded, retryRest>>

RetryNext ==
  \/ ProfileCreated
  \/ ProfileOnboarded
  \/ ProfileReset
  \/ checkOnboardingStatus
  \/ ProfileAnswered
  \/ DelayElapsed

\* Every query is answered and every timer fires.
SpecRetry ==
  /\ RetryInit
  /\ [][RetryNext]_vars
  /\ WF_vars(checkOnboardingStatus)
  /\ WF_vars(ProfileAnswered)
  /\ WF_vars(DelayElapsed)

----------------------------------------------------------------------------
(* Editing the preferences: handleEditPreferences of the app component and  *)
(* toggleInterest and handleComplete of OnboardingScreen.  The definition   *)
(* of the table user_preferences is not part of the sources: whether it     *)
(* allows a second row for one interest of a user is left open.             *)

MaxPasses == 2
MaxPrefRows == 2

\* insert of one row per selected interest, as one statement: with one row
\* per interest allowed, an interest stored already refuses the whole insert.
insertPreferences(rows, unique, selected) ==
  IF unique /\ \E i \in selected : rows[i] > 0
    THEN [rows |-> rows, error |-> TRUE]
    ELSE [rows |-> [i \in DOMAIN rows |->
                     IF i \in selected THEN rows[i] + 1 ELSE rows[i]],
          error |-> FALSE]

\* A new user on the onboarding screen.
PrefsInit ==
  /\ MatchIdle
  /\ FeedIdle
  /\ PageIdle
  /\ NormIdle
  /\ PureIdle
  /\ UserIdle
  /\ ModalIdle
  /\ ReloadIdle
  /\ SavedTabIdle
  /\ profileRow = [exists |-> TRUE, onboarded |-> "false"]
  /\ retryPc = "done"
  /\ attempt = 0
  /\ outcomes = <<>>
  /\ returned = noProfile
  /\ checkingOnboarding = FALSE
  /\ isOnboarded = FALSE
  /\ prefRows = [i \in OnboardingInterests |-> 0]
  /\ prefsUnique \in BOOLEAN
  /\ selectedInterests = {}
  /\ lastSelected = {}
  /\ passes = 0

prefsRest ==
  <<matchVars, feedVars, pageVars, normVars, pureVars, userVars, modalVars,
    reloadVars, savedTabVars, retryPc, attempt, outcomes, returned,
    checkingOnboarding>>

\* A click on an interest of the onboarding screen.
toggleInterest ==
  /\ ~isOnboarded
  /\ \E i \in OnboardingInterests :
       selectedInterests' =
         IF i \in selectedInterests THEN selectedInterests \ {i}
         ELSE selectedInterests \cup {i}
  /\ UNCHANGED <<prefRows, prefsUnique, lastSelected, passes, profileRow,
                 isOnboarded, prefsRest>>

\* handleComplete: the insert into user_preferences, the update of the
\* profile to onboarded = true, and onComplete; an error of either request
\* ends it in its catch.
handleComplete ==
  /\ ~isOnboarded
  /\ selectedInterests # {}
  /\ passes < MaxPasses
  /\ \A i \in selectedInterests : prefRows[i] < MaxPrefRows
  /\ \E preferencesError, profileError \in BOOLEAN :
       LET done == insertPreferences(prefRows, prefsUnique, selectedInterests)
       IN IF preferencesError \/ done.error
            THEN UNCHANGED <<prefRows, profileRow, isOnboarded, lastSelected,
                             passes>>
          ELSE IF profileError
            THEN /\ prefRows' = done.rows
                 /\ UNCHANGED <<profileRow, isOnboarded, lastSelected, passes>>
          ELSE /\ prefRows' = done.rows
               /\ profileRow' = [exists |-> TRUE, onboarded |-> "true"]
               /\ isOnboarded' = TRUE
               /\ lastSelected' = selectedInterests
               /\ passes' = passes + 1
  /\ UNCHANGED <<prefsUnique, selectedInterests, prefsRest>>

\* handleEditPreferences: the profile is updated to onboarded = false and the
\* onboarding screen is mounted again, with nothing selected.
handleEditPreferences ==
  /\ isOnboarded
  /\ \E updated \in BOOLEAN :
       profileRow' = IF updated THEN [exists |-> TRUE, onboarded |-> "false"]
                     ELSE profileRow
  /\ isOnboarded' = FALSE
  /\ selectedInterests' = {}
  /\ UNCHANGED <<prefRows, prefsUnique, lastSelected, passes, prefsRest>>

PrefsNext ==
  \/ toggleInterest
  \/ handleComplete
  \/ handleEditPreferences

SpecPrefs == PrefsInit /\ [][PrefsNext]_vars

----------------------------------------------------------------------------
(* Properties of the matcher *)

\* The words of a normalized string: its maximal runs of non-space characters.
WordStarts(s) == {i \in 1..Len(s) : s[i] # " " /\ (i = 1 \/ s[i - 1] = " ")}
WordEnd(s, i) ==
  CHOOSE j \in i..Len(s) :
    /\ \A k \in i..j : s[k] # " "
    /\ j = Len(s) \/ s[j + 1] = " "
WordSet(s) == {SubSeq(s, i, WordEnd(s, i)) : i \in WordStarts(s)}


Labels == {interests[i] : i \in 1..Len(interests)}
KeywordSet(L) ==
  IF L \in DOMAIN CATEGORY_KEYWORDS
    THEN {CATEGORY_KEYWORDS[L][k] : k \in 1..Len(CATEGORY_KEYWORDS[L])}
    ELSE {}
TypeNorm == normalize(ev.event_type)
SearchText == normalize(searchSource(ev))

\* The normalized type contains the normalized label L.
TypeContains(L) == includes(TypeNorm, normalize(L))
\* Some keyword of a selected label has all its words in text.
SomeKeywordIn(text) ==
  LET textWords == WordSet(text)
  IN  \E L \in Labels : \E k \in KeywordSet(L) :
        WordSet(normalize(k)) \subseteq textWords

\* C2, for the events that have a type: whenever the normalized type is not
\* empty and contains the normalized text of some label of the list, at any
\* position, matchesByInterests returns true.
C2_TypeContainsMatches ==
  (matchDone /\ TypeNorm # <<>> /\ \E L \in Labels : TypeContains(L))
    => (~threw /\ matched)

C4_OrAcrossLabels ==
  (matchDone /\ Len(interests) >= 1)
    => LET reversed == [i \in 1..Len(interests) |->
                          interests[Len(interests) + 1 - i]]
       IN  /\ (~threw /\ matched)
                 <=> \E L \in Labels :
                       ~matchThrows(ev, <<L>>) /\ matchesByInterests(ev, <<L>>)
           /\ (~threw /\ matched)
                 <=> (~matchThrows(ev, reversed) /\ matchesByInterests(ev, reversed))

TagTexts ==
  IF ev.tags = null THEN {} ELSE {normalize(ev.tags[i]) : i \in 1..Len(ev.tags)}

\* C6, as stated: an event one of whose tags has all the words of a keyword of
\* a selected interest is matched.
C6_TagKeywordMatches ==
  (matchDone /\ \E t \in TagTexts : SomeKeywordIn(t)) => matched

\* The tags joined by single spaces.
RECURSIVE JoinTags(_)
JoinTags(tags) ==
  IF tags = <<>> THEN <<>>
  ELSE IF Len(tags) = 1 THEN tags[1]
  ELSE tags[1] \o <<" ">> \o JoinTags(Tail(tags))

\* The search text as the specification composes it: title, stripped
\* description, organization and tags, without the type.
SpecSearchText ==
  normalize(ev.title \o <<" ">> \o stripHTML(ev.description) \o <<" ">>
    \o orEmpty(ev.organization) \o <<" ">>
    \o JoinTags(orEmpty(ev.tags)))

\* C7, as stated: an event no keyword of which is in its title, description,
\* organization or tags, and whose normalized type contains no normalized
\* label, is not matched, whatever its type field holds.
C7_TypeNotInSearchText ==
  (/\ matchDone /\ Len(interests) >= 1
   /\ \A L \in Labels : ~TypeContains(L)
   /\ ~SomeKeywordIn(SpecSearchText))
    => ~matched

\* C7, amended: the type field is normalized separately for the type rule and
\* is also part of the search text: for a single selected label, an event
\* whose type field has all the words of a keyword of the label is matched.
C7_TypeKeywordMatches ==
  (matchDone /\ Len(interests) = 1 /\ SomeKeywordIn(TypeNorm))
    => (~threw /\ matched)

\* "yoga" occurs in the type "Yoga Class" alone, and the type does not contain
\* the label.
C7_Witness ==
  /\ matchDone /\ matched
  /\ ev.event_type = TypeYogaClass
  /\ interests = <<WellnessLabel>>
  /\ ~TypeContains(WellnessLabel)
  /\ ~SomeKeywordIn(SpecSearchText)

\* C8: for a single label without an entry in the taxonomy,
\* matchesByInterests returns true exactly when the normalized type is not
\* empty and contains the normalized label.
C8_AbsentLabelTypeOnly ==
  (matchDone /\ Len(interests) = 1 /\ interests[1] \notin DOMAIN CATEGORY_KEYWORDS)
    => (matched <=> (TypeNorm # <<>> /\ TypeContains(interests[1])))

\* "Sports" has no entry; the type "Sports Day" contains it.
C8_Witness ==
  /\ matchDone /\ matched
  /\ interests = <<SportsLabel>>
  /\ ev.event_type = TypeSportsDay
  /\ ev.title = TitleRandomMixer

----------------------------------------------------------------------------
(* Properties of the feed and of the score *)

\* The rows of the loader's allEvents whose date is at or after its now.
UpcomingRows ==
  {allEvents[i] : i \in {k \in 1..Len(allEvents) : allEvents[k].date >= now}}
FeedRows == {events[i] : i \in 1..Len(events)}

\* C1: when a load ends with an empty interest list, the feed holds exactly
\* the upcoming events, each once, whatever their content; the
\* word-membership revision shows them in the order of the query.
C1_FallbackToAllUpcoming ==
  (pc = "done" /\ loadInterests = <<>>)
    => /\ FeedRows = UpcomingRows
       /\ Len(events) = Cardinality(UpcomingRows)
       /\ revision = "R7" => events = upcoming(allEvents, now)

\* A user without interests, a past event and an upcoming event that no
\* keyword of any label matches.
C1_Witness ==
  /\ pc = "done" /\ revision = "R7" /\ dbPrefs = <<>>
  /\ Len(allEvents) = 2 /\ Len(events) = 1
  /\ events[1].title = TitleRandomMixer
  /\ ~matchesByInterests(events[1], <<WellnessLabel, ArtsLabel>>)

\* The keyword hits of event e: the (interest, keyword) positions the text of
\* e contains.
Hits(e) ==
  LET text == normalizeR6(searchSource(e))
  IN  UNION {{<<i, k>> : k \in {m \in 1..Len(keywordsOfR6(loadInterests[i])) :
                includes(text, normalizeR6(keywordsOfR6(loadInterests[i])[m]))}} :
             i \in 1..Len(loadInterests)}

\* C9: of two events with the same date scored in one load, the one whose
\* keyword hits include all keyword hits of the other has a score at least as
\* high.
C9_ScoreMonotoneInHits ==
  (pc = "done" /\ revision = "R6")
    => LET hits == [i \in 1..Len(scored) |-> Hits(scored[i].e)]
       IN  \A i, j \in 1..Len(scored) :
             (/\ scored[i].e.date = scored[j].e.date
              /\ hits[j] \subseteq hits[i])
               => scored[i].score >= scored[j].score

\* Two events of one date, the hits of the second among the five of the first.
C9_Witness ==
  /\ pc = "done" /\ revision = "R6"
  /\ Len(scored) = 2
  /\ scored[1].e.date = scored[2].e.date
  /\ Cardinality(Hits(scored[1].e)) = 5
  /\ Cardinality(Hits(scored[2].e)) = 1
  /\ Hits(scored[2].e) \subseteq Hits(scored[1].e)
  /\ scored[1].score > scored[2].score

\* C10, as stated: of two upcoming events with the same keyword hits scored in
\* one load, the one whose date is closer to now has a score at least as high
\* as the one further in the future.
C10_ScoreMonotoneInImminence ==
  (pc = "done" /\ revision = "R6")
    => LET hits == [i \in 1..Len(scored) |-> Hits(scored[i].e)]
       IN  \A i, j \in 1..Len(scored) :
             (/\ hits[i] = hits[j]
              /\ now <= scored[i].e.date
              /\ scored[i].e.date <= scored[j].e.date)
               => scored[i].score >= scored[j].score

\* The list the ranking revision filters before it scores: the upcoming rows,
\* those with a keyword of an interest in their text when there are interests.
FilteredRows ==
  LET up == {k \in 1..Len(allEvents) : allEvents[k].date >= now}
      kept == IF loadInterests = <<>> THEN up
              ELSE {k \in up : Hits(allEvents[k]) # {}}
  IN  {allEvents[k] : k \in kept}

\* C11: the list the ranking revision stores holds exactly the events of the
\* filtered list, each exactly once, whatever their scores: the score decides
\* the order only.
C11_RankedIsPermutation ==
  (pc = "done" /\ revision = "R6")
    => /\ FeedRows = FilteredRows
       /\ Len(events) = Cardinality(FilteredRows)
       /\ \A i, j \in 1..Len(scored) : i < j => scored[i].score >= scored[j].score

\* Two events without keyword hits, both kept and shown in another order than
\* the query returned them.
C11_Witness ==
  /\ pc = "done" /\ revision = "R6"
  /\ Len(allEvents) = 2 /\ Len(events) = 2
  /\ Hits(events[1]) = {} /\ Hits(events[2]) = {}
  /\ events # allEvents

\* C12: with a single interest, an event with five keyword hits has a strictly
\* higher score than an event with one keyword hit and an earlier date, for
\* the events the load scored and for every other pair of rows of the query.
C12_KeywordWeightDominates ==
  (pc = "done" /\ revision = "R6" /\ Len(loadInterests) = 1)
    => LET hits == [i \in 1..Len(allEvents) |-> Cardinality(Hits(allEvents[i]))]
           score == [i \in 1..Len(allEvents) |->
                       relevanceScore(allEvents[i], loadInterests, now)]
       IN  /\ \A i, j \in 1..Len(allEvents) :
                (/\ hits[i] = 5 /\ hits[j] = 1
                 /\ allEvents[j].date < allEvents[i].date)
                  => score[i] > score[j]
           /\ \A i, j \in 1..Len(scored) :
                (/\ Cardinality(Hits(scored[i].e)) = 5
                 /\ Cardinality(Hits(scored[j].e)) = 1
                 /\ scored[j].e.date < scored[i].e.date)
                  => scored[i].score > scored[j].score

\* Scenario 5: under the one interest "Wellness & Mental Health", an event
\* with five hits and an earlier event with one hit, both scored.
C12_Witness ==
  /\ pc = "done" /\ revision = "R6"
  /\ loadInterests = <<WellnessLabel>>
  /\ Len(scored) = 2
  /\ scored[1].e.title = TitleWellnessFive /\ Cardinality(Hits(scored[1].e)) = 5
  /\ scored[2].e.title = TitleTherapyDogs /\ Cardinality(Hits(scored[2].e)) = 1
  /\ scored[2].e.date < scored[1].e.date
  /\ scored[1].score > scored[2].score

\* C13: every event of the feed has a date that parses and is at or after the
\* time the load took as now, with interests and in the no-interest fallback,
\* in both revisions; a row with a past date is never in the feed.
C13_OnlyUpcomingInFeed ==
  /\ \A i \in 1..Len(events) :
        events[i].date # NaN /\ events[i].date >= now
  /\ pc = "done"
       => \A k \in 1..Len(allEvents) :
            allEvents[k].date < now => allEvents[k] \notin FeedRows

\* A load with interests that found a past event and an upcoming event, both
\* with a keyword of the interest, and shows the upcoming one only.
C13_Witness ==
  /\ pc = "done" /\ loadInterests = <<WellnessLabel>>
  /\ Len(allEvents) = 2 /\ Len(events) = 1
  /\ allEvents[1].date < now /\ allEvents[1].title = TitleTherapyDogs
  /\ allEvents[2].title = TitleTherapyDogs
  /\ events[1] = allEvents[2]

----------------------------------------------------------------------------
(* Properties of the paging *)

totalPages == totalPagesOf(events)
Pages == 0..(totalPages - 1)

\* C14, as stated: currentPage is always one of the pages 0 .. totalPages-1.
C14_PageWithinPages ==
  currentPage \in Pages

\* C14, amended: page p is the events 10p+1 .. 10p+10 of the feed (counted
\* from 1) as far as the feed goes, so no page has more than eventsPerPage
\* events and every event of the feed is on exactly one page; the page shown
\* is the slice of currentPage; under a feed that is not empty currentPage is
\* one of the pages 0 .. totalPages-1, from every page but the last the Next
\* button leads to the page after it and from every page but the first the
\* Previous button to the page before it; under an empty feed there is no
\* page and currentPage is 0.
C14_FixedSizePagination ==
  /\ \A p \in Pages :
        LET slice == pageSliceOf(events, p)
        IN  /\ Len(slice) <= eventsPerPage
            /\ Len(slice) >= 1
            /\ \A k \in 1..Len(slice) : slice[k] = events[eventsPerPage * p + k]
            /\ p + 1 < totalPages => Len(slice) = eventsPerPage
  /\ \A i \in 1..Len(events) :
        Cardinality({p \in Pages :
                       \E k \in 1..Len(pageSliceOf(events, p)) :
                         pageSliceOf(events, p)[k].id = events[i].id}) = 1
  /\ IF events = <<>> THEN currentPage = 0 ELSE currentPage \in Pages
  /\ currentPage + 1 < totalPages
       => ENABLED (handleNextPage /\ currentPage' = currentPage + 1)
  /\ (currentPage > 0 /\ events # <<>>)
       => ENABLED (handlePreviousPage /\ currentPage' = currentPage - 1)

\* The last of five pages, with fewer than eventsPerPage events, reached by
\* the Next button.
C14_Witness ==
  /\ totalPages = 5 /\ currentPage = 4
  /\ Len(pageSliceOf(events, currentPage)) = 3
  /\ pageSliceOf(events, currentPage)[3] = events[Len(events)]

----------------------------------------------------------------------------
(* Properties of the normalizer *)

\* C15: normalize applied to a result of normalize returns that result.
C15_NormalizeIdempotent ==
  normAgain # pending => normAgain = normOut

\* A string with upper-case letters, punctuation and "&", normalized to
\* another string and normalized again.
C15_Witness ==
  /\ normIn = TitleWellnessFive
  /\ normOut # pending /\ normOut # normIn
  /\ normAgain # pending

\* Position i of string s is part of a tag: of a stretch from a "<" to the
\* first ">" after it.
InTag(s, i) ==
  \E a \in 1..i :
    /\ s[a] = "<"
    /\ \A m \in a..(i - 1) : s[m] # ">"
    /\ \E b \in i..Len(s) : b > a /\ s[b] = ">"

\* The string without its tags, and the string with a space for every
\* character of a tag.
WithoutTags(s) ==
  LET keep == {i \in 1..Len(s) : ~InTag(s, i)}
      nth(k) == CHOOSE i \in keep : Cardinality({m \in keep : m < i}) = k - 1
  IN  [k \in 1..Cardinality(keep) |-> s[nth(k)]]
TagsAsSpaces(s) == [i \in 1..Len(s) |-> IF InTag(s, i) THEN " " ELSE s[i]]

\* C16, as stated: normalize of a string is normalize of the string without
\* its tags.
C16_NormalizeStripsMarkup ==
  normOut # pending => normOut = normalize(WithoutTags(orEmpty(normIn)))

\* C16, amended: stripHTML followed by normalize, which is what the matcher
\* applies to a description, gives normalize of the string with a space in
\* the place of every tag, and no word of it comes from inside a tag;
\* normalize of the markup "<p>Yoga <b>session</b></p>" stripped is
\* normalize of "Yoga session".
C16_StrippedThenNormalized ==
  /\ stripNormOut # pending
       => stripNormOut = normalize(TagsAsSpaces(orEmpty(normIn)))
  /\ (stripNormOut # pending /\ normIn = DescYogaMarkup)
       => stripNormOut = normalize(TextYogaSession)

\* The markup of the example stripped and normalized, and normalized without
\* stripping, where the names of its tags are words.
C16_Witness ==
  /\ normIn = DescYogaMarkup
  /\ stripNormOut = normalize(TextYogaSession)
  /\ normOut # pending /\ normOut # stripNormOut
  /\ <<"p">> \in WordSet(normOut) /\ <<"p">> \notin WordSet(stripNormOut)

LetterOrDigit ==
  {LowerLetters[i] : i \in 1..26} \cup {UpperLetters[i] : i \in 1..26} \cup Digits

\* The words a string is to give: its maximal runs of letters and digits in
\* lower case, and, where amp holds, the word "and" for each "&".
SourceWordStarts(t, amp) ==
  {i \in 1..Len(t) :
     \/ t[i] \in LetterOrDigit /\ (i = 1 \/ t[i - 1] \notin LetterOrDigit)
     \/ amp /\ t[i] = "&"}
SourceWordAt(t, i) ==
  IF t[i] = "&" THEN <<"a","n","d">>
  ELSE LET j == CHOOSE k \in i..Len(t) :
                  /\ \A m \in i..k : t[m] \in LetterOrDigit
                  /\ k = Len(t) \/ t[k + 1] \notin LetterOrDigit
       IN  toLowerCase(SubSeq(t, i, j))
SourceWords(t, amp) ==
  LET st == SourceWordStarts(t, amp)
      nth(k) == CHOOSE i \in st : Cardinality({m \in st : m < i}) = k - 1
  IN  [k \in 1..Cardinality(st) |-> SourceWordAt(t, nth(k))]

\* The words of a normalized string, in their order.
WordSeq(s) ==
  LET st == WordStarts(s)
      nth(k) == CHOOSE i \in st : Cardinality({m \in st : m < i}) = k - 1
  IN  [k \in 1..Cardinality(st) |-> SubSeq(s, nth(k), WordEnd(s, nth(k)))]

\* A string of lower-case letters, digits and single spaces between them.
NormalForm(s) ==
  /\ \A i \in 1..Len(s) : s[i] \in (AlnumOrSpace \ {"\t", "\n"})
  /\ \A i \in 1..Len(s) : s[i] = " " => (i > 1 /\ i < Len(s) /\ s[i + 1] # " ")

\* The string without its punctuation: without the characters that are
\* neither letters, digits, white space nor "&".
PunctuationDeleted(t) ==
  SelectSeq(t, LAMBDA c : c \in LetterOrDigit \/ IsSpace(c) \/ c = "&")

\* "selfcare" and "self care"
TextSelfcareOneWord ==
  <<"s","e","l","f","c","a","r","e">>
TextSelfCareTwoWords ==
  <<"s","e","l","f"," ","c","a","r","e">>

\* C17, as stated: punctuation is deleted with nothing in its place: the
\* words of the result are those of the string without its punctuation, and
\* "self-care" gives "selfcare".
C17_PunctuationDeleted ==
  normOut # pending
    => /\ WordSeq(normOut) = SourceWords(PunctuationDeleted(orEmpty(normIn)), TRUE)
       /\ normIn = TextSelfCare => normOut = TextSelfcareOneWord

\* C17, amended: punctuation is replaced by a space: the result is the
\* maximal runs of letters and digits of the string, in lower case and with
\* single spaces between them, so the letters on the two sides of a
\* punctuation character are in two words, and "self-care" gives
\* "self care"; "&" is the word "and" in the word-membership revision and
\* punctuation like any other in the ranking revision.
C17_PunctuationToSpace ==
  /\ normOut # pending
       => /\ NormalForm(normOut)
          /\ WordSeq(normOut) = SourceWords(orEmpty(normIn), TRUE)
          /\ normIn = TextSelfCare => normOut = TextSelfCareTwoWords
  /\ normOutR6 # pending
       => /\ NormalForm(normOutR6)
          /\ WordSeq(normOutR6) = SourceWords(orEmpty(normIn), FALSE)
          /\ normIn = TextSelfCare => normOutR6 = TextSelfCareTwoWords

\* "self-care" normalized by both revisions.
C17_Witness ==
  /\ normIn = TextSelfCare
  /\ normOut = TextSelfCareTwoWords
  /\ normOutR6 = TextSelfCareTwoWords

\* "arts and crafts"
TextArtsAndCrafts ==
  <<"a","r","t","s"," ","a","n","d"," ","c","r","a","f","t","s">>

\* The number of words "and" of a normalized string, and of "&" in a string.
AndWords(s) ==
  Cardinality({i \in WordStarts(s) : SubSeq(s, i, WordEnd(s, i)) = <<"a","n","d">>})
Ampersands(t) == Cardinality({i \in 1..Len(t) : t[i] = "&"})

\* C18: the result of normalize has no "&", and has a word "and" of its own
\* for every "&" of the string, next to the words "and" the string has
\* without its "&"; "Arts & Crafts" gives "arts and crafts".
C18_AmpersandIsAnd ==
  normOut # pending
    => LET t == orEmpty(normIn)
           rest == [i \in 1..Len(t) |-> IF t[i] = "&" THEN " " ELSE t[i]]
       IN  /\ \A i \in 1..Len(normOut) : normOut[i] # "&"
           /\ AndWords(normOut) = Ampersands(t) + AndWords(normalize(rest))
           /\ normIn = TextArtsCrafts => normOut = TextArtsAndCrafts

\* "Arts & Crafts" normalized: one word "and", for its one "&".
C18_Witness ==
  /\ normIn = TextArtsCrafts
  /\ normOut = TextArtsAndCrafts
  /\ AndWords(normOut) = 1

----------------------------------------------------------------------------
(* Totality of the matcher *)

\* The event with the empty string, or the empty list, for its null fields.
EmptyForNull(e) ==
  [e EXCEPT !.description = orEmpty(e.description),
            !.event_type = orEmpty(e.event_type),
            !.organization = orEmpty(e.organization),
            !.tags = orEmpty(e.tags)]

\* C19, as stated: normalize of null is the empty string; for every event and
\* every interest list matchesByInterests returns a boolean and throws
\* nothing; and it returns for an event with null fields what it returns for
\* the event with empty strings in their place.
C19_MatcherTotal ==
  /\ normalize(null) = <<>>
  /\ matchDone
       => /\ ~threw
          /\ matched \in BOOLEAN
          /\ matched = matchesByInterests(EmptyForNull(ev), interests)

----------------------------------------------------------------------------
(* Properties of repeated invocations *)

SameMatchResults ==
  \A i, j \in DOMAIN matchLog : matchLog[i] = matchLog[j]

SameScoreResults ==
  \A i, j \in DOMAIN scoreLog :
    /\ scoreLog[i].threw = scoreLog[j].threw
    /\ scoreLog[i].score = scoreLog[j].score

SameScoreResultsAtSameTime ==
  \A i, j \in DOMAIN scoreLog :
    scoreLog[i].clock = scoreLog[j].clock =>
      /\ scoreLog[i].threw = scoreLog[j].threw
      /\ scoreLog[i].score = scoreLog[j].score

InputsUnmodified ==
  /\ ev' = ev
  /\ interests' = interests

----------------------------------------------------------------------------
(* Properties of the user's saved events and applications *)

\* C21: in the revision with the error check (R7), however often and in
\* whatever interleaving handleApply is invoked for an event, the
\* applications table holds at most one row for it and the calendar page is
\* opened at most once, together with the one addition to appliedEvents.
C21_ApplyIdempotent ==
  revision = "R7" =>
    \A e \in UserEventIds :
      /\ dbApplications[e] <= 1
      /\ calendarOpens[e] <= 1

\* An application went through and opened the calendar, and a second
\* handleApply for the same event, invoked before the event was shown as
\* applied, has been refused by the backend.
C21_Witness ==
  /\ revision = "R7"
  /\ \E i \in 1..Len(calls) :
       /\ calls[i].kind = "apply"
       /\ calls[i].stage = "answered"
       /\ calls[i].result = "error"
       /\ calls[i].event \in appliedEvents
       /\ calendarOpens[calls[i].event] = 1
       /\ dbApplications[calls[i].event] = 1

\* C26: once handleSave (adding) or handleApply has succeeded for an event,
\* the event stays in savedEvents / appliedEvents until the user un-saves
\* it, also when a loadUserData started earlier is answered later (R7).
C26_SuccessNeverLost ==
  revision = "R7" =>
    /\ savedOk \subseteq savedEvents
    /\ appliedOk \subseteq appliedEvents

\* A call of handleSave ends on an answer that is an error or a failure.
SaveEndsOnError(i) ==
  /\ calls[i].kind = "save"
  /\ calls[i].stage = "answered"
  /\ calls[i].result # "ok"
  /\ calls' = RemoveAt(calls, i)

\* C27: handleSave leaves savedEvents unchanged when the backend reported an
\* error or the request failed, and whenever no call is under way
\* savedEvents is the set of event ids of the user's saved_events rows.
C27_SaveAgreesWithBackend ==
  [][/\ \A i \in 1..Len(calls) :
          SaveEndsOnError(i) => savedEvents' = savedEvents
     /\ calls' = <<>> => savedEvents' = dbSaved']_vars

----------------------------------------------------------------------------
(* Properties of the event modal *)

\* C25: in every reachable state isModalOpen = true implies that
\* selectedEvent is not null, also when openModal is invoked after closeModal
\* and before the timer of closeModal fires.
C25_OpenModalHasEvent ==
  isModalOpen => selectedEvent # nullEvent

----------------------------------------------------------------------------
(* Properties of overlapping loads of the feed *)

\* C22: once every load that was started has completed, none of them in
\* its catch block, the feed is the filter result for the preferences
\* stored last, also when a load started earlier completes after a load
\* started later.
C22_FeedReflectsLatestPreferences ==
  (loads = <<>> /\ ~errorLogged) =>
    events = filteredEventsTsx(dbEvents, userInterestsOf(dbPrefs))

\* C28: whenever the feed is drawn and not empty, currentPage is below
\* ceil(events.length / 10) and the page slice is not empty, also after a
\* load has replaced the feed with a shorter list.
C28_CurrentPageValid ==
  (~loading /\ events # <<>>) =>
    /\ currentPage < totalPagesOf(events)
    /\ pageSliceOf(events, currentPage) # <<>>

----------------------------------------------------------------------------
(* Properties of the saved tab *)

createdAtOf(id) == (CHOOSE r \in savedRows : r.event_id = id).created_at

\* C23: when fetchSavedEvents has ended without an error, the list holds
\* exactly the saved events for which an events row was returned, each
\* once, most recently saved first; when it has ended on an error of either
\* select the list is empty; in both cases loading has ended.
C23_SavedOrderKept ==
  /\ fetchPc = "done" =>
       /\ ~savedTabLoading
       /\ \A i, j \in DOMAIN savedTabEvents :
            i # j => savedTabEvents[i].id # savedTabEvents[j].id
       /\ {savedTabEvents[i].id : i \in DOMAIN savedTabEvents}
            = {r.event_id : r \in savedRows}
                \cap {eventsData[k].id : k \in DOMAIN eventsData}
       /\ \A i, j \in DOMAIN savedTabEvents :
            i < j => createdAtOf(savedTabEvents[i].id)
                       >= createdAtOf(savedTabEvents[j].id)
  /\ fetchPc = "failed" =>
       /\ ~savedTabLoading
       /\ savedTabEvents = <<>>

\* Three events are saved at two different times, the events row of one of
\* them is not returned, and the other two are answered in the other order
\* than they are shown.
C23_Witness ==
  /\ fetchPc = "done"
  /\ Cardinality(savedRows) = 3
  /\ Len(savedTabEvents) = 2
  /\ createdAtOf(savedTabEvents[1].id) > createdAtOf(savedTabEvents[2].id)
  /\ eventsData[1] = savedTabEvents[2]

----------------------------------------------------------------------------
(* Properties of the onboarding check *)

RetryEnded ==
  /\ retryPc = "done"
  /\ outcomes # <<>>
  /\ ~checkingOnboarding
  /\ \A k \in 1..Len(outcomes) : outcomes[k] # "threw"

\* At most 3 queries; the profile of the first query with a row is
\* returned, and null after 3 queries with an error or without a row; at
\* the end isOnboarded is true exactly for a returned profile with
\* onboarded = true.
RetryResult ==
  /\ Len(outcomes) <= 3
  /\ \A k \in 1..(Len(outcomes) - 1) : outcomes[k] \in {"error", "none"}
  /\ RetryEnded =>
       /\ returned.exists <=> outcomes[Len(outcomes)] = "row"
       /\ ~returned.exists =>
            /\ Len(outcomes) = 3
            /\ \A k \in 1..3 : outcomes[k] \in {"error", "none"}
       /\ isOnboarded <=> (returned.exists /\ returned.onboarded = "true")
  /\ retryPc = "done" => ~checkingOnboarding

\* C24: the onboarding check issues at most 3 profile queries, returns the
\* profile of the first query that yields a row and null after 3 queries
\* that errored or found no row, and always ends, with checkingOnboarding
\* false and isOnboarded true exactly when the returned profile has
\* onboarded = true.
C24_RetryTerminates ==
  /\ []RetryResult
  /\ <>(retryPc = "done")

\* The check has ended on the third query: the first two found no row or
\* an error, the row was created meanwhile with onboarding not completed.
C24_Witness ==
  /\ RetryEnded
  /\ Len(outcomes) = 3
  /\ outcomes[1] = "error"
  /\ outcomes[2] = "none"
  /\ returned.exists
  /\ ~isOnboarded

----------------------------------------------------------------------------
(* Properties of editing the preferences *)

\* C29: after handleEditPreferences and a successful handleComplete the
\* user's user_preferences rows are exactly the interests selected in that
\* pass: no interest of an earlier pass that was not selected again is
\* stored, and no interest is stored twice.
C29_EditReplacesInterests ==
  (isOnboarded /\ passes >= 2) =>
    \A i \in OnboardingInterests :
      prefRows[i] = IF i \in lastSelected THEN 1 ELSE 0

====
